---- MODULE Spec2Model ----
(***************************************************************************)
(* Model of the TrampoAI backend: the MCP connection manager               *)
(* (services/mcp-manager.ts), the OAuth client provider                    *)
(* (services/oauth-provider.ts) and the SQLite stores                      *)
(* (services/database.ts).                                                 *)
(*                                                                         *)
(* The handlers of MCPManager are async: between two awaits the MCP SDK    *)
(* drives the OAuth provider object (state, saveTokens, ...).  One handler *)
(* is in flight at a time (variable cur); while it is suspended at an      *)
(* await on the protocol session, the SDK may call the provider's methods. *)
(***************************************************************************)
EXTENDS Integers, Sequences, FiniteSets, TLC

\* ---------------------------------------------------------------- bounds
MaxIds   == 2      \* connection identifiers uuidv4() can hand out
MaxTools == 1      \* longest tool list a provider returns
MaxProvVal == 2    \* values per field in the provider-level specification
MaxCalls == 2      \* tool calls in one model reply
MaxIter  == 3      \* largest maxIterations option passed to chatWithToolLoop

Ids   == 1..MaxIds
\* createOAuthClientProvider(connectionId, ...) binds a provider object to one
\* identifier; SpecProvider follows the object of the first one.
ProvIds  == {CHOOSE id \in Ids : \A other \in Ids : id <= other}
ProvVals == 1..MaxProvVal

\* SQL NULL / JS undefined (data.x ?? null maps undefined to null)
FirstId == CHOOSE id \in Ids : \A other \in Ids : id <= other

NULL == 0

VARIABLES
    connections,        \* MCPManager.connections : Map id -> MCPConnection
    pendingConnections, \* module-level Map id -> pending entry
    oauthDb,            \* table oauth_sessions   : Map id -> row
    mcpDb,              \* table mcp_connections  : Map id -> row
    used,               \* identifiers uuidv4() has already returned
    cur,                \* the handler in flight and its await position
    last,               \* what the last finished handler returned
    openrouter,         \* the OpenRouterService call in flight
    bg,                 \* a second handler, suspended at its await
    pure                \* a pure function of openrouter.ts being applied

vars == <<connections, pendingConnections, oauthDb, mcpDb, used, cur, last,
          openrouter, bg, pure>>

\* ------------------------------------------------------------ Map helpers
MapSet(m, k, v) == (k :> v) @@ m
MapDelete(m, k) == [x \in (DOMAIN m) \ {k} |-> m[x]]
EmptyMap == [x \in {} |-> NULL]

\* ------------------------------------------------ database.ts : oauthDb
COALESCE(a, b) == IF a # NULL THEN a ELSE b

\* the argument object of oauthDb.upsert after `?? null`
NoData == [tokens |-> NULL, code_verifier |-> NULL, client_info |-> NULL,
           authorization_url |-> NULL, state |-> NULL]

\* INSERT ... ON CONFLICT(connection_id) DO UPDATE SET ...
upsertOAuthSession(db, id, d) ==
    IF id \in DOMAIN db
    THEN MapSet(db, id,
           [tokens            |-> COALESCE(d.tokens, db[id].tokens),
            code_verifier     |-> COALESCE(d.code_verifier, db[id].code_verifier),
            client_info       |-> COALESCE(d.client_info, db[id].client_info),
            authorization_url |-> d.authorization_url,
            state             |-> COALESCE(d.state, db[id].state)])
    ELSE MapSet(db, id, d)

oauthDbDelete(db, id) == MapDelete(db, id)

\* variant: clearing the tokens also drops the client registration
clearTokens_AndClient(db, id) ==
    IF id \in DOMAIN db
    THEN [db EXCEPT ![id].tokens = NULL, ![id].client_info = NULL] ELSE db

\* UPDATE oauth_sessions SET <col> = NULL WHERE connection_id = ?
clearTokens(db, id) ==
    IF id \in DOMAIN db THEN [db EXCEPT ![id].tokens = NULL] ELSE db
clearCodeVerifier(db, id) ==
    IF id \in DOMAIN db THEN [db EXCEPT ![id].code_verifier = NULL] ELSE db
clearClientInfo(db, id) ==
    IF id \in DOMAIN db THEN [db EXCEPT ![id].client_info = NULL] ELSE db
oauthDbClearAuthorizationUrl(db, id) ==
    IF id \in DOMAIN db THEN [db EXCEPT ![id].authorization_url = NULL] ELSE db

\* ------------------------------------------------- database.ts : mcpDb
mcpDbUpsert(db, id, status) == MapSet(db, id, [status |-> status])
mcpDbDelete(db, id) == MapDelete(db, id)
\* UPDATE mcp_connections SET status = ? WHERE id = ?   (no row: no effect)
updateStatus(db, id, status) ==
    IF id \in DOMAIN db THEN [db EXCEPT ![id].status = status] ELSE db

\* ------------------------------------- oauth-provider.ts : the provider
\* getSession(): the row, or {} when there is none; NULL columns read as
\* undefined
getSession(db, id) == IF id \in DOMAIN db THEN db[id] ELSE NoData

provState(db, id, v) ==
    upsertOAuthSession(db, id, [NoData EXCEPT !.state = v])
saveClientInformation(db, id, v) ==
    upsertOAuthSession(db, id, [NoData EXCEPT !.client_info = v])
saveTokens(db, id, v) ==
    upsertOAuthSession(db, id, [NoData EXCEPT !.tokens = v])
redirectToAuthorization(db, id, v) ==
    upsertOAuthSession(db, id, [NoData EXCEPT !.authorization_url = v])
saveCodeVerifier(db, id, v) ==
    upsertOAuthSession(db, id, [NoData EXCEPT !.code_verifier = v])

provTokens(db, id)            == getSession(db, id).tokens
clientInformation(db, id)     == getSession(db, id).client_info
getAuthorizationUrl(db, id)   == getSession(db, id).authorization_url
\* codeVerifier() throws when the column is empty: NULL stands for the throw
codeVerifier(db, id)          == getSession(db, id).code_verifier

Scopes == {"all", "client", "tokens", "verifier"}
invalidateCredentials(db, id, scope) ==
    IF scope = "all" THEN oauthDbDelete(db, id)
    ELSE IF scope = "tokens" THEN clearTokens(db, id)
    ELSE IF scope = "verifier" THEN clearCodeVerifier(db, id)
    ELSE IF scope = "client" THEN clearClientInfo(db, id)
    ELSE db

clearAuthorizationUrl(db, id) == oauthDbClearAuthorizationUrl(db, id)
deleteOAuthSession(db, id)    == oauthDbDelete(db, id)

\* the writes of the provider object
Writes == {"state", "saveClientInformation", "saveTokens",
           "redirectToAuthorization", "saveCodeVerifier"}
\* MCPManager reads two columns of the record, tokens() in reconnect and
\* getAuthorizationUrl() in connect.  In Spec the SDK writes and invalidates
\* those two while a handler awaits; the other three columns go through the
\* same upsert and are exercised, with every write and scope, in SpecProvider.
SdkWrites == {"saveTokens", "redirectToAuthorization"}
SdkScopes == {"all", "tokens"}
\* the column each write sets
FieldOf(m) ==
    IF m = "state" THEN "state"
    ELSE IF m = "saveClientInformation" THEN "client_info"
    ELSE IF m = "saveTokens" THEN "tokens"
    ELSE IF m = "redirectToAuthorization" THEN "authorization_url"
    ELSE "code_verifier"
Fields == {"tokens", "code_verifier", "client_info", "authorization_url",
           "state"}
ProviderWrite(db, id, m, v) ==
    IF m = "state" THEN provState(db, id, v)
    ELSE IF m = "saveClientInformation" THEN saveClientInformation(db, id, v)
    ELSE IF m = "saveTokens" THEN saveTokens(db, id, v)
    ELSE IF m = "redirectToAuthorization" THEN redirectToAuthorization(db, id, v)
    ELSE saveCodeVerifier(db, id, v)

\* ------------------------------------------------------------ bookkeeping
\* attempts: how each saved row of the running recovery ended so far;
\* closeThrew: client.close() raised inside the last disconnect;
\* orphans: the identifiers whose session the operation opened and then
\* dropped, neither stored in the Registry nor closed
Idle == [op |-> "idle", id |-> 0, pc |-> "idle", todo |-> {}, captured |-> NULL,
         attempts |-> EmptyMap, orphans |-> {}]
NoResult == [op |-> "none", id |-> 0, result |-> "none", url |-> NULL,
             captured |-> NULL, tools |-> <<>>, attempts |-> EmptyMap,
             closeThrew |-> FALSE, orphans |-> {}]
Result(op, id, result) ==
    [op |-> op, id |-> id, result |-> result, url |-> NULL, captured |-> NULL,
     tools |-> <<>>, attempts |-> EmptyMap, closeThrew |-> FALSE,
     orphans |-> {}]

\* listTools(): the provider's tool list
ToolLists == {[k \in 1..n |-> k] : n \in 0..MaxTools}
Connected(tools) == [status |-> "connected", tools |-> tools]

\* ChatMessage, ToolCall, ToolResult and the value a call of chat or
\* chatWithToolLoop hands back (kind ok) or throws (kind error)
Message(role) ==
    [role |-> role, content |-> "text", tool_calls |-> <<>>,
     tool_call_id |-> <<>>]
NoMessage == Message("none")
NoReturn ==
    [kind |-> "none", error |-> "none", bound |-> 0,
     hasMessages |-> FALSE, messages |-> <<>>, finalMessage |-> NoMessage,
     hasToolResults |-> FALSE, toolResults |-> <<>>]

\* No chat call in flight.  useTools: the option of the call; request: the
\* body of the last request sent to the LLM (the role of its last message,
\* whether it has a tools field, the function names in it).  up: the connections whose provider answers a
\* tools/call request; executed, dispatched, requests: executeTool
\* invocations, provider calls and LLM requests of the call so far.
NoRequest ==
    [sent |-> FALSE, lastRole |-> "none", hasTools |-> FALSE, tools |-> {}]
ChatIdle ==
    [entry |-> "none", pc |-> "idle", up |-> {}, maxIterations |-> 0,
     useTools |-> "undefined", request |-> NoRequest,
     iteration |-> 0, input |-> <<>>, messages |-> <<>>, requests |-> 0,
     message |-> NoMessage, toolResults |-> <<>>, running |-> {},
     executed |-> 0, dispatched |-> <<>>, result |-> NoReturn]

\* no pure function is being applied
NoCall == [fn |-> "none"]

Init ==
    /\ connections = EmptyMap
    /\ pendingConnections = EmptyMap
    /\ oauthDb = EmptyMap
    /\ mcpDb = EmptyMap
    /\ used = {}
    /\ cur = Idle
    /\ last = NoResult
    /\ openrouter = ChatIdle
    /\ bg = Idle
    /\ pure = NoCall

\* ------------------------------------------ the SDK driving the provider
\* While a handler awaits the protocol session (transport.finishAuth,
\* client.connect, client.listTools) the SDK calls the provider bound to the
\* handler's identifier; so it does while a tool call is awaited.
AtAwait == cur.pc \in {"finishAuth", "open", "list", "call"}

\* A handler that leaves through its catch block while it awaits listTools
\* has an open session in its local `client` (client.connect returned); no
\* catch block calls client.close(), the only close is in disconnect.
Orphaned == IF cur.pc = "list" THEN {cur.id} ELSE {}

\* What the SDK stores for a connection (its tokens, its verifier, the
\* authorization URL of its provider) belongs to that connection: the value
\* is named after the identifier.
SdkValue(id) == id

SdkWrite(m) ==
    /\ AtAwait
    /\ oauthDb' = ProviderWrite(oauthDb, cur.id, m, SdkValue(cur.id))
    /\ cur' = IF m = "redirectToAuthorization"
              THEN [cur EXCEPT !.captured = SdkValue(cur.id)] ELSE cur
    /\ UNCHANGED <<connections, pendingConnections, mcpDb, used, last>>
    /\ UNCHANGED <<openrouter, bg, pure>>

SdkInvalidate(scope) ==
    /\ AtAwait
    /\ oauthDb' = invalidateCredentials(oauthDb, cur.id, scope)
    /\ UNCHANGED <<connections, pendingConnections, mcpDb, used, cur, last>>
    /\ UNCHANGED <<openrouter, bg, pure>>

\* ------------------------------------------------- MCPManager.connect
\* uuidv4(): an identifier never returned before (the next one)
uuidv4 == CHOOSE id \in Ids \ used : \A other \in Ids \ used : id <= other

\* uuidv4(), createOAuthClientProvider, transport construction.  new URL(url)
\* throws for a malformed url, in the fallback too, before the try block.
ConnectStart(id, urlOk) ==
    /\ cur = Idle
    /\ used # Ids
    /\ id = uuidv4
    /\ used' = used \cup {id}
    /\ IF urlOk
       THEN /\ cur' = [Idle EXCEPT !.op = "connect", !.id = id, !.pc = "open"]
            /\ last' = NoResult
       ELSE /\ cur' = Idle
            /\ last' = Result("connect", id, "error")
    /\ UNCHANGED <<connections, pendingConnections, oauthDb, mcpDb>>
    /\ UNCHANGED <<openrouter, bg, pure>>

\* await client.connect(transport) returned
ConnectOpenOk ==
    /\ cur.op = "connect" /\ cur.pc = "open"
    /\ cur' = [cur EXCEPT !.pc = "list"]
    /\ UNCHANGED <<connections, pendingConnections, oauthDb, mcpDb, used, last>>
    /\ UNCHANGED <<openrouter, bg, pure>>

\* await client.listTools() returned: store, persist, return the connection
ConnectListOk(tools) ==
    /\ cur.op = "connect" /\ cur.pc = "list"
    /\ connections' = MapSet(connections, cur.id, Connected(tools))
    /\ mcpDb' = mcpDbUpsert(mcpDb, cur.id, "connected")
    /\ last' = [Result("connect", cur.id, "connected") EXCEPT !.tools = tools]
    /\ cur' = Idle
    /\ UNCHANGED <<pendingConnections, oauthDb, used>>
    /\ UNCHANGED <<openrouter, bg, pure>>

\* variant: the captured URL stays in the credential record
ConnectNeedsAuth_KeepUrl ==
    /\ cur.op = "connect" /\ cur.pc \in {"open", "list"}
    /\ getAuthorizationUrl(oauthDb, cur.id) # NULL
    /\ mcpDb' = mcpDbUpsert(mcpDb, cur.id, "pending_auth")
    /\ pendingConnections' =
           MapSet(pendingConnections, cur.id, [authProvider |-> cur.id])
    /\ last' = [Result("connect", cur.id, "needsAuth") EXCEPT
                   !.orphans = Orphaned,
                   !.url = getAuthorizationUrl(oauthDb, cur.id),
                   !.captured = cur.captured]
    /\ cur' = Idle
    /\ UNCHANGED <<connections, oauthDb, used>>
    /\ UNCHANGED <<openrouter, bg, pure>>

\* catch, `error instanceof UnauthorizedError` with a captured URL
ConnectNeedsAuth ==
    /\ cur.op = "connect" /\ cur.pc \in {"open", "list"}
    /\ getAuthorizationUrl(oauthDb, cur.id) # NULL
    /\ mcpDb' = mcpDbUpsert(mcpDb, cur.id, "pending_auth")
    /\ pendingConnections' =
           MapSet(pendingConnections, cur.id, [authProvider |-> cur.id])
    /\ oauthDb' = clearAuthorizationUrl(oauthDb, cur.id)
    /\ last' = [Result("connect", cur.id, "needsAuth") EXCEPT
                   !.orphans = Orphaned,
                   !.url = getAuthorizationUrl(oauthDb, cur.id),
                   !.captured = cur.captured]
    /\ cur' = Idle
    /\ UNCHANGED <<connections, used>>
    /\ UNCHANGED <<openrouter, bg, pure>>

\* variant: the credential record is left behind
ConnectFail_KeepSession(unauthorized) ==
    /\ cur.op = "connect" /\ cur.pc \in {"open", "list"}
    /\ ~(unauthorized /\ getAuthorizationUrl(oauthDb, cur.id) # NULL)
    /\ mcpDb' = mcpDbDelete(mcpDb, cur.id)
    /\ last' = [Result("connect", cur.id, "error") EXCEPT
                   !.orphans = Orphaned]
    /\ cur' = Idle
    /\ UNCHANGED <<connections, pendingConnections, oauthDb, used>>
    /\ UNCHANGED <<openrouter, bg, pure>>

\* variant: the failure path empties the credential store
ConnectFail_WipesSessions(unauthorized) ==
    /\ cur.op = "connect" /\ cur.pc \in {"open", "list"}
    /\ ~(unauthorized /\ getAuthorizationUrl(oauthDb, cur.id) # NULL)
    /\ oauthDb' = EmptyMap
    /\ mcpDb' = mcpDbDelete(mcpDb, cur.id)
    /\ last' = [Result("connect", cur.id, "error") EXCEPT
                   !.orphans = Orphaned]
    /\ cur' = Idle
    /\ UNCHANGED <<connections, pendingConnections, used>>
    /\ UNCHANGED <<openrouter, bg, pure>>

\* catch, every other case: UnauthorizedError without a captured URL, or
\* any other error
ConnectFail(unauthorized) ==
    /\ cur.op = "connect" /\ cur.pc \in {"open", "list"}
    /\ ~(unauthorized /\ getAuthorizationUrl(oauthDb, cur.id) # NULL)
    /\ oauthDb' = deleteOAuthSession(oauthDb, cur.id)
    /\ mcpDb' = mcpDbDelete(mcpDb, cur.id)
    /\ last' = [Result("connect", cur.id, "error") EXCEPT
                   !.orphans = Orphaned]
    /\ cur' = Idle
    /\ UNCHANGED <<connections, pendingConnections, used>>
    /\ UNCHANGED <<openrouter, bg, pure>>

\* ---------------------------------- MCPManager.completeOAuthConnection
\* variant: the lookup sits inside the try block, its error runs the cleanup
CompleteNotFound_Cleanup(id) ==
    /\ cur = Idle
    /\ id \notin DOMAIN pendingConnections
    /\ oauthDb' = deleteOAuthSession(oauthDb, id)
    /\ mcpDb' = mcpDbDelete(mcpDb, id)
    /\ last' = Result("completeOAuthConnection", id, "not_found")
    /\ UNCHANGED <<connections, pendingConnections, used, cur>>
    /\ UNCHANGED <<openrouter, bg, pure>>

\* no Pending entry: throws before the try block
CompleteNotFound(id) ==
    /\ cur = Idle
    /\ id \notin DOMAIN pendingConnections
    /\ last' = Result("completeOAuthConnection", id, "not_found")
    /\ UNCHANGED <<connections, pendingConnections, oauthDb, mcpDb, used, cur>>
    /\ UNCHANGED <<openrouter, bg, pure>>

CompleteStart(id) ==
    /\ cur = Idle
    /\ id \in DOMAIN pendingConnections
    /\ cur' = [Idle EXCEPT !.op = "completeOAuthConnection", !.id = id,
                           !.pc = "finishAuth"]
    /\ last' = NoResult
    /\ UNCHANGED <<connections, pendingConnections, oauthDb, mcpDb, used>>
    /\ UNCHANGED <<openrouter, bg, pure>>

\* await pending.transport.finishAuth(code) returned
CompleteFinishAuthOk ==
    /\ cur.op = "completeOAuthConnection" /\ cur.pc = "finishAuth"
    /\ cur' = [cur EXCEPT !.pc = "open"]
    /\ UNCHANGED <<connections, pendingConnections, oauthDb, mcpDb, used, last>>
    /\ UNCHANGED <<openrouter, bg, pure>>

\* await pending.client.connect(pending.transport) returned
CompleteOpenOk ==
    /\ cur.op = "completeOAuthConnection" /\ cur.pc = "open"
    /\ cur' = [cur EXCEPT !.pc = "list"]
    /\ UNCHANGED <<connections, pendingConnections, oauthDb, mcpDb, used, last>>
    /\ UNCHANGED <<openrouter, bg, pure>>

\* variant: the Pending entry is not removed on promotion
CompleteListOk_KeepPending(tools) ==
    /\ cur.op = "completeOAuthConnection" /\ cur.pc = "list"
    /\ connections' = MapSet(connections, cur.id, Connected(tools))
    /\ mcpDb' = updateStatus(mcpDb, cur.id, "connected")
    /\ last' = [Result("completeOAuthConnection", cur.id, "connected")
                   EXCEPT !.tools = tools]
    /\ cur' = Idle
    /\ UNCHANGED <<pendingConnections, oauthDb, used>>
    /\ UNCHANGED <<openrouter, bg, pure>>

\* variant: the persisted status is not updated on promotion
CompleteListOk_NoStatus(tools) ==
    /\ cur.op = "completeOAuthConnection" /\ cur.pc = "list"
    /\ connections' = MapSet(connections, cur.id, Connected(tools))
    /\ pendingConnections' = MapDelete(pendingConnections, cur.id)
    /\ last' = [Result("completeOAuthConnection", cur.id, "connected")
                   EXCEPT !.tools = tools]
    /\ cur' = Idle
    /\ UNCHANGED <<oauthDb, mcpDb, used>>
    /\ UNCHANGED <<openrouter, bg, pure>>

\* await pending.client.listTools() returned: promote
CompleteListOk(tools) ==
    /\ cur.op = "completeOAuthConnection" /\ cur.pc = "list"
    /\ connections' = MapSet(connections, cur.id, Connected(tools))
    /\ pendingConnections' = MapDelete(pendingConnections, cur.id)
    /\ mcpDb' = updateStatus(mcpDb, cur.id, "connected")
    /\ last' = [Result("completeOAuthConnection", cur.id, "connected")
                   EXCEPT !.tools = tools]
    /\ cur' = Idle
    /\ UNCHANGED <<oauthDb, used>>
    /\ UNCHANGED <<openrouter, bg, pure>>

\* variant: the failed attempt keeps its Pending entry for a retry
CompleteFail_KeepPending ==
    /\ cur.op = "completeOAuthConnection"
    /\ oauthDb' = deleteOAuthSession(oauthDb, cur.id)
    /\ mcpDb' = mcpDbDelete(mcpDb, cur.id)
    /\ last' = [Result("completeOAuthConnection", cur.id, "error") EXCEPT
                   !.orphans = Orphaned]
    /\ cur' = Idle
    /\ UNCHANGED <<connections, pendingConnections, used>>
    /\ UNCHANGED <<openrouter, bg, pure>>

\* catch: any of the three awaits threw
CompleteFail ==
    /\ cur.op = "completeOAuthConnection"
    /\ pendingConnections' = MapDelete(pendingConnections, cur.id)
    /\ oauthDb' = deleteOAuthSession(oauthDb, cur.id)
    /\ mcpDb' = mcpDbDelete(mcpDb, cur.id)
    /\ last' = [Result("completeOAuthConnection", cur.id, "error") EXCEPT
                   !.orphans = Orphaned]
    /\ cur' = Idle
    /\ UNCHANGED <<connections, used>>
    /\ UNCHANGED <<openrouter, bg, pure>>

\* ----------------------------------------------- MCPManager.disconnect
\* variant: the Registry entry is kept and only marked disconnected
Disconnect_Soft(id, closeThrows) ==
    /\ cur = Idle
    /\ IF id \notin DOMAIN connections /\ id \notin DOMAIN pendingConnections
       THEN /\ last' = Result("disconnect", id, "false")
            /\ UNCHANGED <<connections, pendingConnections, oauthDb, mcpDb>>
       ELSE /\ connections' =
                   IF id \in DOMAIN connections
                   THEN [connections EXCEPT ![id].status = "disconnected"]
                   ELSE connections
            /\ pendingConnections' = MapDelete(pendingConnections, id)
            /\ oauthDb' = deleteOAuthSession(oauthDb, id)
            /\ mcpDb' = mcpDbDelete(mcpDb, id)
            /\ last' = Result("disconnect", id, "true")
    /\ closeThrows \in BOOLEAN
    /\ UNCHANGED <<used, cur>>
    /\ UNCHANGED <<openrouter, bg, pure>>

\* variant: no early return, every call tears down and reports true
Disconnect_NoCheck(id, closeThrows) ==
    /\ cur = Idle
    /\ connections' = MapDelete(connections, id)
    /\ pendingConnections' = MapDelete(pendingConnections, id)
    /\ oauthDb' = deleteOAuthSession(oauthDb, id)
    /\ mcpDb' = mcpDbDelete(mcpDb, id)
    /\ last' = [Result("disconnect", id, "true") EXCEPT
                   !.closeThrew = closeThrows /\ id \in DOMAIN connections]
    /\ UNCHANGED <<used, cur>>
    /\ UNCHANGED <<openrouter, bg, pure>>

\* variant: the error of client.close() is passed on without a teardown
Disconnect_CloseRethrows(id, closeThrows) ==
    /\ cur = Idle
    /\ IF id \notin DOMAIN connections /\ id \notin DOMAIN pendingConnections
       THEN /\ last' = Result("disconnect", id, "false")
            /\ UNCHANGED <<connections, pendingConnections, oauthDb, mcpDb>>
       ELSE IF closeThrows /\ id \in DOMAIN connections
       THEN /\ last' = [Result("disconnect", id, "error") EXCEPT
                           !.closeThrew = TRUE]
            /\ UNCHANGED <<connections, pendingConnections, oauthDb, mcpDb>>
       ELSE /\ connections' = MapDelete(connections, id)
            /\ pendingConnections' = MapDelete(pendingConnections, id)
            /\ oauthDb' = deleteOAuthSession(oauthDb, id)
            /\ mcpDb' = mcpDbDelete(mcpDb, id)
            /\ last' = Result("disconnect", id, "true")
    /\ UNCHANGED <<used, cur>>
    /\ UNCHANGED <<openrouter, bg, pure>>

\* closeThrows: await connection.client.close() raised (it is only called
\* for a Registry entry); the catch block tears down the same things the try
\* block does.
Disconnect(id, closeThrows) ==
    /\ cur = Idle
    /\ IF id \notin DOMAIN connections /\ id \notin DOMAIN pendingConnections
       THEN /\ last' = Result("disconnect", id, "false")
            /\ UNCHANGED <<connections, pendingConnections, oauthDb, mcpDb>>
       ELSE /\ connections' = MapDelete(connections, id)
            /\ pendingConnections' = MapDelete(pendingConnections, id)
            /\ oauthDb' = deleteOAuthSession(oauthDb, id)
            /\ mcpDb' = mcpDbDelete(mcpDb, id)
            /\ last' = [Result("disconnect", id, "true") EXCEPT
                           !.closeThrew =
                               closeThrows /\ id \in DOMAIN connections]
    /\ UNCHANGED <<used, cur>>
    /\ UNCHANGED <<openrouter, bg, pure>>

\* ------------------------- process restart, index.ts app.listen callback
\* The in-memory maps start empty and no handler of the old process is left;
\* the database file survives.
\* cleanupOldSessions deletes the oauth_sessions rows older than 24 hours
\* (old: the rows whose updated_at is before the cut-off), then
\* reconnectSavedConnections reads mcpDb.getAll().
cleanupOldSessions(db, old) == [x \in (DOMAIN db) \ old |-> db[x]]

Restart(old) ==
    /\ cur = Idle
    /\ old \subseteq DOMAIN oauthDb
    /\ connections' = EmptyMap
    /\ pendingConnections' = EmptyMap
    /\ oauthDb' = cleanupOldSessions(oauthDb, old)
    /\ IF DOMAIN mcpDb = {}
       THEN /\ cur' = Idle
            /\ last' = Result("reconnectSavedConnections", 0, "ok")
       ELSE /\ cur' = [Idle EXCEPT !.op = "reconnectSavedConnections",
                                   !.pc = "next", !.todo = DOMAIN mcpDb]
            /\ last' = NoResult
    /\ bg' = Idle
    /\ UNCHANGED <<mcpDb, used>>
    /\ UNCHANGED <<openrouter, pure>>

\* variant: a row without tokens goes on to the session open
ReconnectNoTokens_StartsFlow(id) ==
    /\ cur.op = "reconnectSavedConnections" /\ cur.pc = "next"
    /\ id \in cur.todo
    /\ provTokens(oauthDb, id) = NULL
    /\ cur' = [cur EXCEPT !.id = id, !.pc = "open"]
    /\ UNCHANGED <<connections, pendingConnections, oauthDb, mcpDb, used, last>>
    /\ UNCHANGED <<openrouter, bg, pure>>

\* reconnect(saved.id, ...): no tokens, mark disconnected and return
ReconnectNoTokens(id) ==
    /\ cur.op = "reconnectSavedConnections" /\ cur.pc = "next"
    /\ id \in cur.todo
    /\ provTokens(oauthDb, id) = NULL
    /\ mcpDb' = updateStatus(mcpDb, id, "disconnected")
    /\ cur' = [cur EXCEPT !.todo = cur.todo \ {id},
                          !.attempts = MapSet(cur.attempts, id, "no_tokens")]
    /\ UNCHANGED <<connections, pendingConnections, oauthDb, used, last>>
    /\ UNCHANGED <<openrouter, bg, pure>>

\* reconnect(saved.id, ...): tokens found, transport built, client.connect
ReconnectStart(id) ==
    /\ cur.op = "reconnectSavedConnections" /\ cur.pc = "next"
    /\ id \in cur.todo
    /\ provTokens(oauthDb, id) # NULL
    /\ cur' = [cur EXCEPT !.id = id, !.pc = "open"]
    /\ UNCHANGED <<connections, pendingConnections, oauthDb, mcpDb, used, last>>
    /\ UNCHANGED <<openrouter, bg, pure>>

ReconnectOpenOk ==
    /\ cur.op = "reconnectSavedConnections" /\ cur.pc = "open"
    /\ cur' = [cur EXCEPT !.pc = "list"]
    /\ UNCHANGED <<connections, pendingConnections, oauthDb, mcpDb, used, last>>
    /\ UNCHANGED <<openrouter, bg, pure>>

ReconnectListOk(tools) ==
    /\ cur.op = "reconnectSavedConnections" /\ cur.pc = "list"
    /\ connections' = MapSet(connections, cur.id, Connected(tools))
    /\ mcpDb' = updateStatus(mcpDb, cur.id, "connected")
    /\ cur' = [cur EXCEPT !.id = 0, !.pc = "next", !.captured = NULL,
                          !.todo = cur.todo \ {cur.id},
                          !.attempts = MapSet(cur.attempts, cur.id, "connected")]
    /\ UNCHANGED <<pendingConnections, oauthDb, used, last>>
    /\ UNCHANGED <<openrouter, bg, pure>>

\* variant: a failed reconnect sends the row back to pending_auth
ReconnectFail_PendingAuth ==
    /\ cur.op = "reconnectSavedConnections" /\ cur.pc \in {"open", "list"}
    /\ mcpDb' = updateStatus(mcpDb, cur.id, "pending_auth")
    /\ cur' = [cur EXCEPT !.id = 0, !.pc = "next", !.captured = NULL,
                          !.todo = cur.todo \ {cur.id},
                          !.attempts = MapSet(cur.attempts, cur.id, "failed"),
                          !.orphans = cur.orphans \cup Orphaned]
    /\ UNCHANGED <<connections, pendingConnections, oauthDb, used, last>>
    /\ UNCHANGED <<openrouter, bg, pure>>

\* variant: the error of a failed reconnect leaves the for loop
ReconnectFail_Abort ==
    /\ cur.op = "reconnectSavedConnections" /\ cur.pc \in {"open", "list"}
    /\ mcpDb' = updateStatus(mcpDb, cur.id, "disconnected")
    /\ cur' = [cur EXCEPT !.id = 0, !.pc = "next", !.captured = NULL,
                          !.todo = {},
                          !.attempts = MapSet(cur.attempts, cur.id, "failed"),
                          !.orphans = cur.orphans \cup Orphaned]
    /\ UNCHANGED <<connections, pendingConnections, oauthDb, used, last>>
    /\ UNCHANGED <<openrouter, bg, pure>>

\* variant: a failed reconnect purges the credential record
ReconnectFail_Purge ==
    /\ cur.op = "reconnectSavedConnections" /\ cur.pc \in {"open", "list"}
    /\ mcpDb' = updateStatus(mcpDb, cur.id, "disconnected")
    /\ oauthDb' = deleteOAuthSession(oauthDb, cur.id)
    /\ cur' = [cur EXCEPT !.id = 0, !.pc = "next", !.captured = NULL,
                          !.todo = cur.todo \ {cur.id},
                          !.attempts = MapSet(cur.attempts, cur.id, "failed"),
                          !.orphans = cur.orphans \cup Orphaned]
    /\ UNCHANGED <<connections, pendingConnections, used, last>>
    /\ UNCHANGED <<openrouter, bg, pure>>

\* reconnect threw; the catch of reconnectSavedConnections
ReconnectFail ==
    /\ cur.op = "reconnectSavedConnections" /\ cur.pc \in {"open", "list"}
    /\ mcpDb' = updateStatus(mcpDb, cur.id, "disconnected")
    /\ cur' = [cur EXCEPT !.id = 0, !.pc = "next", !.captured = NULL,
                          !.todo = cur.todo \ {cur.id},
                          !.attempts = MapSet(cur.attempts, cur.id, "failed"),
                          !.orphans = cur.orphans \cup Orphaned]
    /\ UNCHANGED <<connections, pendingConnections, oauthDb, used, last>>
    /\ UNCHANGED <<openrouter, bg, pure>>

\* the for loop is over
ReconnectDone ==
    /\ cur.op = "reconnectSavedConnections" /\ cur.pc = "next"
    /\ cur.todo = {}
    /\ cur' = Idle
    /\ last' = [Result("reconnectSavedConnections", 0, "ok") EXCEPT
                   !.attempts = cur.attempts,
                   !.orphans = cur.orphans]
    /\ UNCHANGED <<connections, pendingConnections, oauthDb, mcpDb, used>>
    /\ UNCHANGED <<openrouter, bg, pure>>

Next ==
    \/ \E m \in SdkWrites : SdkWrite(m)
    \/ \E scope \in SdkScopes : SdkInvalidate(scope)
    \/ \E id \in Ids, urlOk \in BOOLEAN : ConnectStart(id, urlOk)
    \/ ConnectOpenOk
    \/ \E tools \in ToolLists : ConnectListOk(tools)
    \/ ConnectNeedsAuth
    \/ \E unauthorized \in BOOLEAN : ConnectFail(unauthorized)
    \/ \E id \in Ids : CompleteNotFound(id)
    \/ \E id \in Ids : CompleteStart(id)
    \/ CompleteFinishAuthOk
    \/ CompleteOpenOk
    \/ \E tools \in ToolLists : CompleteListOk(tools)
    \/ CompleteFail
    \/ \E id \in Ids, closeThrows \in BOOLEAN : Disconnect(id, closeThrows)
    \/ \E old \in SUBSET Ids : Restart(old)
    \/ \E id \in Ids : ReconnectNoTokens(id)
    \/ \E id \in Ids : ReconnectStart(id)
    \/ ReconnectOpenOk
    \/ \E tools \in ToolLists : ReconnectListOk(tools)
    \/ ReconnectFail
    \/ ReconnectDone

Spec == Init /\ [][Next]_vars

\* ------------------------------------------- handlers that interleave
\* The HTTP handlers run on one event loop: while a handler is suspended at
\* an await another one runs up to its own await or its end.  cur is the
\* handler taking steps, bg a handler that is suspended; Swap hands the
\* event loop from one to the other.
Swap ==
    /\ cur # bg
    /\ cur' = bg
    /\ bg' = cur
    /\ UNCHANGED <<connections, pendingConnections, oauthDb, mcpDb, used, last,
                   openrouter, pure>>

\* MCPManager.callTool: no Registry entry, throw; else await
\* connection.client.callTool(...)
CallToolStart(id) ==
    /\ cur = Idle
    /\ IF id \in DOMAIN connections
       THEN /\ cur' = [Idle EXCEPT !.op = "callTool", !.id = id, !.pc = "call"]
            /\ last' = NoResult
       ELSE /\ cur' = Idle
            /\ last' = Result("callTool", id, "not_found")
    /\ UNCHANGED <<connections, pendingConnections, oauthDb, mcpDb, used>>
    /\ UNCHANGED <<openrouter, bg, pure>>

\* the provider call returned or threw
CallToolDone(ok) ==
    /\ cur.op = "callTool" /\ cur.pc = "call"
    /\ cur' = Idle
    /\ last' = Result("callTool", cur.id, IF ok THEN "ok" ELSE "error")
    /\ UNCHANGED <<connections, pendingConnections, oauthDb, mcpDb, used>>
    /\ UNCHANGED <<openrouter, bg, pure>>

\* The interleavings are explored for two handlers and the first two
\* identifiers uuidv4() hands out.
Pair == {id \in Ids : id <= FirstId + 1}
ConcurrentNext ==
    \/ \E m \in SdkWrites : SdkWrite(m)
    \/ \E scope \in SdkScopes : SdkInvalidate(scope)
    \/ \E id \in Pair, urlOk \in BOOLEAN : ConnectStart(id, urlOk)
    \/ ConnectOpenOk
    \/ \E tools \in ToolLists : ConnectListOk(tools)
    \/ ConnectNeedsAuth
    \/ \E unauthorized \in BOOLEAN : ConnectFail(unauthorized)
    \/ \E id \in Ids : CompleteNotFound(id)
    \/ \E id \in Ids : CompleteStart(id)
    \/ CompleteFinishAuthOk
    \/ CompleteOpenOk
    \/ \E tools \in ToolLists : CompleteListOk(tools)
    \/ CompleteFail
    \/ \E id \in Ids, closeThrows \in BOOLEAN : Disconnect(id, closeThrows)
    \/ \E id \in Ids : CallToolStart(id)
    \/ \E ok \in BOOLEAN : CallToolDone(ok)
    \/ Swap

SpecConcurrent == Init /\ [][ConcurrentNext]_vars

\* ------------------------------------------------ MCPManager.getAllTools
getAllTools ==
    UNION {{[connectionId |-> c, tool |-> connections[c].tools[k]] :
               k \in DOMAIN connections[c].tools} : c \in DOMAIN connections}

TypeOK ==
    /\ DOMAIN connections \subseteq Ids
    /\ DOMAIN pendingConnections \subseteq Ids
    /\ DOMAIN oauthDb \subseteq Ids
    /\ DOMAIN mcpDb \subseteq Ids
    /\ used \subseteq Ids

\* ------------------------------------------------ provider-level model
\* The object returned by createOAuthClientProvider(id, ...) and the exported
\* helpers of oauth-provider.ts, called in any order on the credential store.
ProvWrite(id, m, v) ==
    /\ oauthDb' = ProviderWrite(oauthDb, id, m, v)
    /\ last' = [Result(m, id, "ok") EXCEPT !.url = v]
    /\ UNCHANGED <<connections, pendingConnections, mcpDb, used, cur>>
    /\ UNCHANGED <<openrouter, bg, pure>>

ProvInvalidate(id, scope) ==
    /\ oauthDb' = invalidateCredentials(oauthDb, id, scope)
    /\ last' = Result("invalidateCredentials", id, scope)
    /\ UNCHANGED <<connections, pendingConnections, mcpDb, used, cur>>
    /\ UNCHANGED <<openrouter, bg, pure>>

\* variant: the retrieval clears the URL it returns
ProvGetAuthorizationUrl_Clears(id) ==
    /\ last' = [Result("getAuthorizationUrl", id, "ok") EXCEPT
                   !.url = getAuthorizationUrl(oauthDb, id)]
    /\ oauthDb' = IF id \in DOMAIN oauthDb
                  THEN clearAuthorizationUrl(oauthDb, id) ELSE oauthDb
    /\ UNCHANGED <<connections, pendingConnections, mcpDb, used, cur>>
    /\ UNCHANGED <<openrouter, bg, pure>>

ProvGetAuthorizationUrl(id) ==
    /\ last' = [Result("getAuthorizationUrl", id, "ok") EXCEPT
                   !.url = getAuthorizationUrl(oauthDb, id)]
    /\ UNCHANGED <<connections, pendingConnections, oauthDb, mcpDb, used, cur>>
    /\ UNCHANGED <<openrouter, bg, pure>>

ProvClearAuthorizationUrl(id) ==
    /\ oauthDb' = clearAuthorizationUrl(oauthDb, id)
    /\ last' = Result("clearAuthorizationUrl", id, "ok")
    /\ UNCHANGED <<connections, pendingConnections, mcpDb, used, cur>>
    /\ UNCHANGED <<openrouter, bg, pure>>

ProvNext ==
    \/ \E id \in ProvIds, m \in Writes, v \in ProvVals : ProvWrite(id, m, v)
    \/ \E id \in ProvIds, scope \in Scopes : ProvInvalidate(id, scope)
    \/ \E id \in ProvIds : ProvGetAuthorizationUrl(id)
    \/ \E id \in ProvIds : ProvClearAuthorizationUrl(id)

SpecProvider == Init /\ [][ProvNext]_vars

\* ------------------------------------------------ OpenRouterService
mcp == <<connections, pendingConnections, oauthDb, mcpDb, used, cur, last,
         bg, pure>>

\* Strings are sequences of characters, characters are integers: US is '_',
\* a connection identifier is written with one positive character, the
\* name of tool t with one negative character.
US == 0
IdString(id) == <<id>>
ToolString(t) == <<0 - t>>

\* `${connectionId}__${tool.name}`
Compose(connectionId, toolName) == connectionId \o <<US, US>> \o toolName
Namespaced(connectionId, toolName) ==
    Compose(IdString(connectionId), toolName)

\* functionName.split('__'): cut at every "__", scanning from the left
RECURSIVE Split(_)
Split(str) ==
    LET At(i) == str[i] = US /\ str[i + 1] = US
        Cuts == {i \in 1..(Len(str) - 1) : At(i)}
    IN  IF Cuts = {} THEN <<str>>
        ELSE LET i == CHOOSE c \in Cuts : \A d \in Cuts : c <= d
             IN  <<SubSeq(str, 1, i - 1)>> \o
                     Split(SubSeq(str, i + 2, Len(str)))

\* toolNameParts.join('__')
RECURSIVE Join(_)
Join(parts) ==
    IF parts = <<>> THEN <<>>
    ELSE IF Len(parts) = 1 THEN parts[1]
    ELSE parts[1] \o <<US, US>> \o Join(Tail(parts))

connectionIdOf(functionName) == Head(Split(functionName))
\* variant: the tool name is the second part alone
toolNameOf_SecondPart(functionName) ==
    LET parts == Split(functionName)
    IN  IF Len(parts) >= 2 THEN parts[2] ELSE <<>>
toolNameOf(functionName) == Join(Tail(Split(functionName)))

\* this.connections.get(connectionId)
LookupConnection(connectionId) ==
    {c \in DOMAIN connections : IdString(c) = connectionId}

systemPrompt == [Message("system") EXCEPT !.content = "systemPrompt"]
Assistant(calls) == [Message("assistant") EXCEPT !.tool_calls = calls]
ToolMessage(r) ==
    [role |-> "tool", content |-> r.output, tool_calls |-> <<>>,
     tool_call_id |-> r.tool_call_id]

\* JSON.stringify(result) and JSON.stringify({ error: message })
ResultPayload == [kind |-> "result", detail |-> "content"]
ErrorPayload(message) == [kind |-> "error", detail |-> message]
ToolResult(call, output) ==
    [tool_call_id |-> call.id, name |-> call.name, output |-> output]

Thrown(error, bound) ==
    [NoReturn EXCEPT !.kind = "error", !.error = error, !.bound = bound]

\* The messages a caller passes, and the replies of the model.  A reply
\* carries up to MaxCalls tool calls; the calls of the n-th reply have the
\* ids <<n, 1>>, <<n, 2>>, ...  A reply to a direct chat() call names any of
\* FunctionNames with arguments that parse or not; a reply inside
\* chatWithToolLoop names the first tool of the first connection.
InputMessages == {<<Message("user")>>, <<Message("system"), Message("user")>>}
FunctionNames ==
    {Namespaced(c, ToolString(1)) : c \in Ids} \cup {ToolString(1)}
ToolCallKinds(entry) ==
    IF entry = "chat"
    THEN [name : FunctionNames, arguments : {"valid", "invalid"}]
    ELSE {[name |-> Namespaced(FirstId, ToolString(1)),
           arguments |-> "valid"]}
Replies == UNION {[1..k -> ToolCallKinds("chat")] : k \in 0..MaxCalls}
ToolCalls(reply, n) ==
    [i \in 1..Len(reply) |-> [id |-> <<n, i>>, name |-> reply[i].name,
                              arguments |-> reply[i].arguments]]

\* The maps a chat call finds.  Registry: empty, or the first connection
\* with one of the tool lists, its provider answering tools/call or not.
\* Pending map: empty, or the next identifier waiting for its authorization
\* (its URL handed out and cleared).
InitChat ==
    /\ connections \in
           {EmptyMap} \cup
           {MapSet(EmptyMap, FirstId, Connected(tools)) : tools \in ToolLists}
    /\ pendingConnections \in
           {EmptyMap,
            MapSet(EmptyMap, FirstId + 1, [authProvider |-> FirstId + 1])}
    /\ oauthDb = [id \in DOMAIN pendingConnections |-> NoData]
    /\ mcpDb = [id \in DOMAIN connections \cup DOMAIN pendingConnections |->
                   [status |-> IF id \in DOMAIN connections
                               THEN "connected" ELSE "pending_auth"]]
    /\ used = DOMAIN mcpDb
    /\ cur = Idle
    /\ last = NoResult
    /\ openrouter \in {[ChatIdle EXCEPT !.up = u] :
                          u \in SUBSET DOMAIN connections}
    /\ bg = Idle
    /\ pure = NoCall

\* the function names convertMCPToolsToOpenRouterFormat yields
Catalog ==
    {Namespaced(x.connectionId, ToolString(x.tool)) : x \in getAllTools}

\* options.useTools, and the histories a caller of chat() submits: those of
\* InputMessages and one that ends with a tool result
UseToolsOptions == {"undefined", "true", "false"}
ToolHistory ==
    LET call == [id |-> <<0, 1>>, name |-> Namespaced(FirstId, ToolString(1)),
                 arguments |-> "valid"]
    IN  <<Message("user"), Assistant(<<call>>),
          ToolMessage(ToolResult(call, ResultPayload))>>
ChatHistories == InputMessages \cup {ToolHistory}

\* variant: no tools are sent when the last message is a tool result
ChatRequest_OmitsAfterTool(messages, useTools) ==
    LET lastMessage == messages[Len(messages)]
        tools == IF useTools # "false" /\ lastMessage.role # "tool"
                 THEN Catalog ELSE {}
    IN  [sent |-> TRUE, lastRole |-> lastMessage.role,
         hasTools |-> tools # {}, tools |-> tools]

\* the request chat() builds: tools and tool_choice are set when the
\* converted tool list is not empty
ChatRequest(messages, useTools) ==
    LET lastMessage == messages[Len(messages)]
        tools == IF useTools # "false" THEN Catalog ELSE {}
    IN  [sent |-> TRUE, lastRole |-> lastMessage.role,
         hasTools |-> tools # {}, tools |-> tools]

\* variant: the system prompt is put in front of every input
chatWithToolLoop_AlwaysPrepends(messages, maxIterations) ==
    /\ openrouter.pc = "idle"
    /\ openrouter' =
           [openrouter EXCEPT
               !.entry = "chatWithToolLoop", !.pc = "while",
               !.maxIterations = maxIterations, !.input = messages,
               !.messages = <<systemPrompt>> \o messages]
    /\ UNCHANGED mcp

\* chatWithToolLoop, up to the while loop
chatWithToolLoop(messages, maxIterations) ==
    /\ openrouter.pc = "idle"
    /\ openrouter' =
           [openrouter EXCEPT
               !.entry = "chatWithToolLoop", !.pc = "while",
               !.maxIterations = maxIterations, !.input = messages,
               !.messages =
                   IF \E i \in DOMAIN messages : messages[i].role = "system"
                   THEN messages ELSE <<systemPrompt>> \o messages]
    /\ UNCHANGED mcp

\* variant: the loop test admits one more iteration
LoopIterate_OffByOne ==
    /\ openrouter.pc = "while"
    /\ openrouter.iteration <= openrouter.maxIterations
    /\ openrouter' =
           [openrouter EXCEPT
               !.iteration = @ + 1, !.pc = "fetch", !.requests = @ + 1,
               !.request = ChatRequest(openrouter.messages,
                                       openrouter.useTools),
               !.message = NoMessage, !.toolResults = <<>>]
    /\ UNCHANGED mcp

\* while (iteration < maxIterations) { iteration++; await this.chat(...)
\* up to the fetch
LoopIterate ==
    /\ openrouter.pc = "while"
    /\ openrouter.iteration < openrouter.maxIterations
    /\ openrouter' =
           [openrouter EXCEPT
               !.iteration = @ + 1, !.pc = "fetch", !.requests = @ + 1,
               !.request = ChatRequest(openrouter.messages,
                                       openrouter.useTools),
               !.message = NoMessage, !.toolResults = <<>>]
    /\ UNCHANGED mcp

\* variant: at the bound the loop neither calls chat nor throws
LoopExceeded_Spins ==
    /\ openrouter.pc = "while"
    /\ ~(openrouter.iteration < openrouter.maxIterations)
    /\ UNCHANGED openrouter
    /\ UNCHANGED mcp

\* the loop test fails: throw new Error(`Max iterations (${maxIterations})
\* reached without completing`)
LoopExceeded ==
    /\ openrouter.pc = "while"
    /\ ~(openrouter.iteration < openrouter.maxIterations)
    /\ openrouter' =
           [openrouter EXCEPT
               !.pc = "done",
               !.result = Thrown("max_iterations", openrouter.maxIterations)]
    /\ UNCHANGED mcp

\* chat() called directly, up to the fetch
chat(messages, useTools) ==
    /\ openrouter.pc = "idle"
    /\ openrouter' =
           [openrouter EXCEPT
               !.entry = "chat", !.pc = "fetch", !.input = messages,
               !.useTools = useTools,
               !.request = ChatRequest(messages, useTools),
               !.messages = messages, !.requests = 1]
    /\ UNCHANGED mcp

\* the request fails, the response is not ok, is not JSON, has no choices
\* or no message: chat throws, and so does chatWithToolLoop
ChatThrows ==
    /\ openrouter.pc = "fetch"
    /\ openrouter' =
           [openrouter EXCEPT !.pc = "done", !.result = Thrown("chat", 0)]
    /\ UNCHANGED mcp

\* variant: only the first tool result of a reply is pushed
LoopBody_FirstResultOnly(o) ==
    LET pushed == Append(o.messages, o.message)
    IN  IF o.message.tool_calls = <<>>
        THEN [o EXCEPT
                 !.pc = "done", !.messages = pushed,
                 !.result = [NoReturn EXCEPT
                                !.kind = "ok", !.hasMessages = TRUE,
                                !.messages = pushed,
                                !.finalMessage = o.message]]
        ELSE [o EXCEPT
                 !.pc = "while",
                 !.messages =
                     Append(pushed, ToolMessage(o.toolResults[1]))]

\* variant: a reply without tool calls does not end the loop
LoopBody_NoReturn(o) ==
    LET pushed == Append(o.messages, o.message)
    IN  [o EXCEPT
            !.pc = "while",
            !.messages =
                pushed \o [i \in 1..Len(o.toolResults) |->
                              ToolMessage(o.toolResults[i])]]

\* the body of the while loop after chat has returned {message, toolResults}
LoopBody(o) ==
    LET pushed == Append(o.messages, o.message)
    IN  IF o.message.tool_calls = <<>>
        THEN [o EXCEPT
                 !.pc = "done", !.messages = pushed,
                 !.result = [NoReturn EXCEPT
                                !.kind = "ok", !.hasMessages = TRUE,
                                !.messages = pushed,
                                !.finalMessage = o.message]]
        ELSE [o EXCEPT
                 !.pc = "while",
                 !.messages =
                     pushed \o [i \in 1..Len(o.toolResults) |->
                                   ToolMessage(o.toolResults[i])]]

\* chat returns { message } or { message, toolResults } to its caller
ChatReturns(o, withResults) ==
    IF o.entry = "chat"
    THEN [o EXCEPT
             !.pc = "done",
             !.result = [NoReturn EXCEPT
                            !.kind = "ok", !.finalMessage = o.message,
                            !.hasToolResults = withResults,
                            !.toolResults = o.toolResults]]
    ELSE LoopBody(o)

\* the for loop over assistantMessage.tool_calls after one executeTool
AfterTool(o) ==
    IF Len(o.toolResults) = Len(o.message.tool_calls)
    THEN ChatReturns(o, TRUE) ELSE [o EXCEPT !.pc = "exec"]

\* the response of the LLM carries the assistant message
LlmReply(reply) ==
    /\ openrouter.pc = "fetch"
    /\ \A i \in DOMAIN reply : reply[i] \in ToolCallKinds(openrouter.entry)
    /\ LET calls == ToolCalls(reply, openrouter.requests)
       IN  openrouter' =
               IF calls = <<>>
               THEN ChatReturns([openrouter EXCEPT
                                    !.message = Assistant(calls)], FALSE)
               ELSE [openrouter EXCEPT
                        !.message = Assistant(calls), !.pc = "exec",
                        !.toolResults = <<>>]
    /\ UNCHANGED mcp

\* the tool call executeTool is handed next
NextCall == openrouter.message.tool_calls[Len(openrouter.toolResults) + 1]

\* variant: the error of a failed tool execution leaves chat
ExecuteToolFails_Throws ==
    /\ openrouter.pc = "exec"
    /\ \/ NextCall.arguments = "invalid"
       \/ LookupConnection(connectionIdOf(NextCall.name)) = {}
    /\ openrouter' =
           [openrouter EXCEPT
               !.executed = @ + 1, !.pc = "done",
               !.result = Thrown("tool", 0)]
    /\ UNCHANGED mcp

\* executeTool: JSON.parse throws, or callTool finds no connection; the
\* catch returns the error as the output
ExecuteToolFails ==
    /\ openrouter.pc = "exec"
    /\ \/ NextCall.arguments = "invalid"
       \/ LookupConnection(connectionIdOf(NextCall.name)) = {}
    /\ openrouter' =
           AfterTool([openrouter EXCEPT
               !.executed = @ + 1,
               !.toolResults =
                   Append(@, ToolResult(NextCall,
                       IF NextCall.arguments = "invalid"
                       THEN ErrorPayload("invalid arguments")
                       ELSE ErrorPayload("connection not found")))])
    /\ UNCHANGED mcp

\* variant: the executions of one reply are started together
ExecuteToolCall_Parallel ==
    /\ openrouter.pc \in {"exec", "callTool"}
    /\ LET i == Len(openrouter.toolResults) +
                    Cardinality(openrouter.running) + 1
       IN  /\ i <= Len(openrouter.message.tool_calls)
           /\ LET call == openrouter.message.tool_calls[i]
              IN  /\ call.arguments = "valid"
                  /\ LookupConnection(connectionIdOf(call.name)) # {}
                  /\ openrouter' =
                         [openrouter EXCEPT
                             !.pc = "callTool",
                             !.running = @ \cup {i},
                             !.executed = @ + 1,
                             !.dispatched =
                                 Append(@, [request |-> openrouter.requests,
                                            index |-> i,
                                            connectionId |->
                                                connectionIdOf(call.name),
                                            toolName |->
                                                toolNameOf(call.name)])]
    /\ UNCHANGED mcp

\* variant: the connection is looked up in the Pending map too
ExecuteToolCall_PendingToo ==
    /\ openrouter.pc = "exec"
    /\ LET i == Len(openrouter.toolResults) + 1
           call == openrouter.message.tool_calls[i]
       IN  /\ call.arguments = "valid"
           /\ \E c \in DOMAIN connections \cup DOMAIN pendingConnections :
                  IdString(c) = connectionIdOf(call.name)
           /\ openrouter' =
                  [openrouter EXCEPT
                      !.pc = "callTool",
                      !.running = {i},
                      !.executed = @ + 1,
                      !.dispatched =
                          Append(@, [request |-> openrouter.requests,
                                     index |-> i,
                                     connectionId |->
                                         connectionIdOf(call.name),
                                     toolName |-> toolNameOf(call.name)])]
    /\ UNCHANGED mcp

\* executeTool: the arguments parse and the connection exists,
\* connection.client.callTool({ name: toolName, arguments: args }) is sent
ExecuteToolCall ==
    /\ openrouter.pc = "exec"
    /\ LET i == Len(openrouter.toolResults) + 1
           call == openrouter.message.tool_calls[i]
       IN  /\ call.arguments = "valid"
           /\ LookupConnection(connectionIdOf(call.name)) # {}
           /\ openrouter' =
                  [openrouter EXCEPT
                      !.pc = "callTool",
                      !.running = {i},
                      !.executed = @ + 1,
                      !.dispatched =
                          Append(@, [request |-> openrouter.requests,
                                     index |-> i,
                                     connectionId |->
                                         connectionIdOf(call.name),
                                     toolName |-> toolNameOf(call.name)])]
    /\ UNCHANGED mcp

\* the provider call of tool call i returns or throws; executeTool returns
\* the result or the error as the output
CallToolReturns(i) ==
    /\ openrouter.pc = "callTool"
    /\ i \in openrouter.running
    /\ LET call == openrouter.message.tool_calls[i]
           answers == LookupConnection(connectionIdOf(call.name))
                          \subseteq openrouter.up
       IN  openrouter' =
               AfterTool([openrouter EXCEPT
                   !.running = @ \ {i},
                   !.toolResults =
                       Append(@, ToolResult(call,
                           IF answers THEN ResultPayload
                           ELSE ErrorPayload("tool call failed")))])
    /\ UNCHANGED mcp

ChatNext ==
    \/ \E messages \in InputMessages, maxIterations \in (0 - 1)..MaxIter :
           chatWithToolLoop(messages, maxIterations)
    \/ LoopIterate
    \/ LoopExceeded
    \/ \E messages \in ChatHistories, useTools \in UseToolsOptions :
           chat(messages, useTools)
    \/ ChatThrows
    \/ \E reply \in Replies : LlmReply(reply)
    \/ ExecuteToolFails
    \/ ExecuteToolCall
    \/ \E i \in 1..MaxCalls : CallToolReturns(i)

SpecChat == InitChat /\ [][ChatNext]_vars

\* The code between two awaits runs to the next await; every request to the
\* LLM is answered or fails, and every provider call returns or throws.
ChatFairness ==
    /\ WF_vars(LoopIterate)
    /\ WF_vars(LoopExceeded)
    /\ WF_vars(ChatThrows \/ \E reply \in Replies : LlmReply(reply))
    /\ WF_vars(ExecuteToolFails)
    /\ WF_vars(ExecuteToolCall)
    /\ WF_vars(\E i \in 1..MaxCalls : CallToolReturns(i))

\* the chat service over a Registry without a flow awaiting authorisation
InitChatLive == InitChat /\ pendingConnections = EmptyMap

SpecChatLive == InitChatLive /\ [][ChatNext]_vars /\ ChatFairness

\* ------------------------------------------- the namespaced tool names
\* A connection identifier and a tool name, any strings of up to MaxNameLen
\* characters over '_' and one letter (the identifier is not empty), are
\* composed as convertMCPToolsToOpenRouterFormat does and the composed name
\* is taken apart as executeTool does.
MaxNameLen == 3
Letter == 1
Strings(lo) == UNION {[1..n -> {US, Letter}] : n \in lo..MaxNameLen}

InitNames ==
    /\ connections = EmptyMap
    /\ pendingConnections = EmptyMap
    /\ oauthDb = EmptyMap
    /\ mcpDb = EmptyMap
    /\ used = {}
    /\ cur = Idle
    /\ last = NoResult
    /\ openrouter = ChatIdle
    /\ bg = Idle
    /\ pure \in {[fn |-> "name", pc |-> "tool", connectionId |-> c,
                   toolName |-> t, functionName |-> <<>>,
                   outConnectionId |-> <<>>, outToolName |-> <<>>] :
                     c \in Strings(1), t \in Strings(0)}

\* name: `${connectionId}__${tool.name}`
NameTool ==
    /\ pure.pc = "tool"
    /\ pure' = [pure EXCEPT
                   !.pc = "call",
                   !.functionName = Compose(pure.connectionId, pure.toolName)]
    /\ UNCHANGED <<connections, pendingConnections, oauthDb, mcpDb, used, cur,
                   last, openrouter, bg>>

\* const [connectionId, ...toolNameParts] = functionName.split('__');
\* const toolName = toolNameParts.join('__')
SplitName ==
    /\ pure.pc = "call"
    /\ pure' = [pure EXCEPT
                   !.pc = "split",
                   !.outConnectionId = connectionIdOf(pure.functionName),
                   !.outToolName = toolNameOf(pure.functionName)]
    /\ UNCHANGED <<connections, pendingConnections, oauthDb, mcpDb, used, cur,
                   last, openrouter, bg>>

NamesNext == NameTool \/ SplitName

SpecNames == InitNames /\ [][NamesNext]_vars

\* ------------------------------------------------ the schema sanitizer
\* A JSON value is a primitive (val: "null", "false", "true", "0", "" for
\* the empty string, any other text for a non-empty string), an object
\* (map: key -> value) or an array (elems).
Prim(v) == [kind |-> "prim", val |-> v, map |-> <<>>, elems |-> <<>>]
Obj(m)  == [kind |-> "obj", val |-> "", map |-> m, elems |-> <<>>]
Arr(e)  == [kind |-> "arr", val |-> "", map |-> <<>>, elems |-> e]
NoKeys == <<>>

\* value && typeof value === 'object'; Array.isArray(value); !value
IsObject(v) == v.kind \in {"obj", "arr"}
IsArray(v) == v.kind = "arr"
Falsy(v) == v.kind = "prim" /\ v.val \in {"", "null", "false", "0"}

\* Object.entries(value): the keys of an array are its indices
IndexKeys == <<"0", "1", "2", "3">>
Entries(v) ==
    IF v.kind = "obj" THEN v.map
    ELSE [k \in {IndexKeys[i] : i \in DOMAIN v.elems} |->
             v.elems[CHOOSE i \in DOMAIN v.elems : IndexKeys[i] = k]]

allowedSchemaProps ==
    {"type", "properties", "required", "description", "additionalProperties",
     "items", "enum", "default", "title", "anyOf", "oneOf", "allOf", "not",
     "minimum", "maximum", "minLength", "maxLength", "pattern", "format",
     "minItems", "maxItems", "uniqueItems", "const", "examples",
     "minProperties", "maxProperties", "propertyNames", "nullable"}

\* key.startsWith('$'), for the keys the schemas below are written with
ReservedKeys == {"$ref", "$schema", "$f"}
StartsWithDollar(key) == key \in ReservedKeys

\* [...new Set(value)]: the first occurrence of every primitive is kept (two
\* parsed objects are never the same object)
RECURSIVE Dedupe(_)
Dedupe(elems) ==
    IF elems = <<>> THEN <<>>
    ELSE LET init == SubSeq(elems, 1, Len(elems) - 1)
             x == elems[Len(elems)]
         IN  IF x.kind = "prim" /\ \E i \in DOMAIN init : init[i] = x
             THEN Dedupe(init) ELSE Append(Dedupe(init), x)

RECURSIVE sanitizeSchemaDefinition(_)
sanitizeSchemaDefinition(schema) ==
    LET entries == Entries(schema)
        kept == {key \in DOMAIN entries :
                    ~StartsWithDollar(key) /\ key \in allowedSchemaProps}
        Sanitized(x) == IF IsObject(x) THEN sanitizeSchemaDefinition(x) ELSE x
        Out(key, value) ==
            IF key = "properties" /\ IsObject(value)
            THEN LET propsObj == Entries(value)
                 IN  Obj([fieldName \in DOMAIN propsObj |->
                             Sanitized(propsObj[fieldName])])
            ELSE IF key = "items" /\ IsObject(value)
            THEN sanitizeSchemaDefinition(value)
            ELSE IF key \in {"anyOf", "oneOf", "allOf"} /\ IsArray(value)
            THEN Arr([i \in DOMAIN value.elems |-> Sanitized(value.elems[i])])
            ELSE IF key = "additionalProperties" /\ IsObject(value)
            THEN sanitizeSchemaDefinition(value)
            ELSE IF key = "required" /\ IsArray(value)
            THEN Arr(Dedupe(value.elems))
            ELSE value
    IN  Obj([key \in kept |-> Out(key, entries[key])])

\* result[key] = value on an object
SetKey(o, key, value) ==
    Obj([k \in DOMAIN o.map \cup {key} |->
            IF k = key THEN value ELSE o.map[k]])
Missing(o, key) == key \notin DOMAIN o.map \/ Falsy(o.map[key])

\* variant: the properties default is tested before the type default
sanitizeSchema_PropertiesFirst(schema) ==
    LET sanitized == sanitizeSchemaDefinition(schema)
        withProps ==
            IF /\ "type" \in DOMAIN sanitized.map
               /\ sanitized.map["type"] = Prim("object")
               /\ Missing(sanitized, "properties")
            THEN SetKey(sanitized, "properties", Obj(NoKeys)) ELSE sanitized
    IN  IF Missing(withProps, "type")
        THEN SetKey(withProps, "type", Prim("object")) ELSE withProps

sanitizeSchema(schema) ==
    LET sanitized == sanitizeSchemaDefinition(schema)
        typed == IF Missing(sanitized, "type")
                 THEN SetKey(sanitized, "type", Prim("object")) ELSE sanitized
    IN  IF typed.map["type"] = Prim("object") /\ Missing(typed, "properties")
        THEN SetKey(typed, "properties", Obj(NoKeys)) ELSE typed

\* The schemas the sanitizer is applied to.  A leaf schema has a type or
\* not and any of a reserved key and a key outside the allow-list.  A schema
\* has a root type that is missing, "object", "string" or empty, the same
\* extra keys, and one keyword (or none) whose value is built from leaf
\* schemas and primitives: arrays have up to MaxArr elements.  Nested
\* schemas carry a schema with a keyword of its own under each keyword.
MaxArr == 2
One(key, value) == (key :> value)
ExtraKeys ==
    {NoKeys, One("$ref", Prim("#/a")), One("x-extra", Prim("x")),
     One("$ref", Prim("#/a")) @@ One("x-extra", Prim("x"))}
LeafSchemas ==
    {Obj(t @@ extra) : t \in {NoKeys, One("type", Prim("string"))},
                       extra \in ExtraKeys}
Elements == LeafSchemas \cup {Prim("true")}
Arrays(of) == UNION {[1..n -> of] : n \in 0..MaxArr}
Keywords(schemas) ==
    {NoKeys}
    \cup {One("properties", Obj(One("$f", x))) : x \in schemas \cup {Prim("true")}}
    \cup {One("properties", x) : x \in {Prim("null"), Prim("abc")}}
    \cup {One("properties", Arr(<<x>>)) : x \in schemas}
    \cup {One("items", x) : x \in schemas \cup {Prim("true")}}
    \cup {One("items", Arr(<<x>>)) : x \in schemas}
    \cup {One("additionalProperties", x) : x \in schemas \cup {Prim("false")}}
    \cup {One("not", x) : x \in schemas}
    \cup {One("propertyNames", x) : x \in schemas}
RootTypes ==
    {NoKeys, One("type", Prim("object")), One("type", Prim("string")),
     One("type", Prim(""))}
Composed ==
    {One(key, Arr(e)) : key \in {"anyOf", "oneOf", "allOf"},
                        e \in Arrays(Elements)}
    \cup {One("required", Arr(e)) : e \in Arrays({Prim("a"), Prim("b")})}
    \cup {One("required", Prim("a"))}
Inner ==
    {Obj(One("$ref", Prim("#/a")) @@ k) :
         k \in Keywords({Obj(One("$ref", Prim("#/a")))})
                \cup {One("anyOf", Arr(<<Obj(One("$ref", Prim("#/a")))>>)),
                      One("required", Arr(<<Prim("a"), Prim("a")>>))}}
Schemas ==
    {Obj(t @@ extra @@ k) :
         t \in RootTypes, extra \in ExtraKeys,
         k \in Keywords(LeafSchemas) \cup Composed}
    \cup {Obj(k) : k \in Keywords(Inner)}
    \cup {Obj(One("anyOf", Arr(<<x>>))) : x \in Inner}
    \cup {Obj(One("type", Prim("object"))
              @@ One("properties", Obj(One("a", x)))
              @@ One("required", Arr(<<Prim("a"), Prim("a")>>))) :
              x \in LeafSchemas}

InitSanitize ==
    /\ connections = EmptyMap
    /\ pendingConnections = EmptyMap
    /\ oauthDb = EmptyMap
    /\ mcpDb = EmptyMap
    /\ used = {}
    /\ cur = Idle
    /\ last = NoResult
    /\ openrouter = ChatIdle
    /\ bg = Idle
    /\ pure \in {[fn |-> "sanitizeSchema", pc |-> "schema", schema |-> x,
                   once |-> Prim("null"), twice |-> Prim("null")] :
                     x \in Schemas}

\* parameters: this.sanitizeSchema(tool.inputSchema)
SanitizeOnce ==
    /\ pure.pc = "schema"
    /\ pure' = [pure EXCEPT !.pc = "once",
                            !.once = sanitizeSchema(pure.schema)]
    /\ UNCHANGED <<connections, pendingConnections, oauthDb, mcpDb, used, cur,
                   last, openrouter, bg>>

\* the sanitizer applied to its own output
SanitizeTwice ==
    /\ pure.pc = "once"
    /\ pure' = [pure EXCEPT !.pc = "twice",
                            !.twice = sanitizeSchema(pure.once)]
    /\ UNCHANGED <<connections, pendingConnections, oauthDb, mcpDb, used, cur,
                   last, openrouter, bg>>

SanitizeNext == SanitizeOnce \/ SanitizeTwice

SpecSanitize == InitSanitize /\ [][SanitizeNext]_vars

\* persisted status of an identifier in mcp_connections
St(db, id) == IF id \in DOMAIN db THEN db[id].status ELSE "absent"

\* ================================================================ claims

\* C1: no identifier is in the Registry and in the Pending map at once.
C1_Exclusive == DOMAIN connections \cap DOMAIN pendingConnections = {}

\* an identifier was promoted from Pending to the Registry
C1_Witness ==
    /\ last.op = "completeOAuthConnection" /\ last.result = "connected"
    /\ last.id \in DOMAIN connections

\* C2: every {connection, tool} pair of getAllTools() belongs to a Registry
\* entry whose status is connected, never to a Pending entry.
C2_CatalogConnected ==
    \A p \in getAllTools :
        /\ p.connectionId \in DOMAIN connections
        /\ connections[p.connectionId].status = "connected"
        /\ p.connectionId \notin DOMAIN pendingConnections

\* the catalog is not empty after one connection was torn down
C2_Witness ==
    /\ getAllTools # {}
    /\ \E id \in used : id \notin DOMAIN connections

ClaimedTransitions ==
    {<<"absent", "pending_auth">>, <<"pending_auth", "connected">>,
     <<"absent", "connected">>, <<"connected", "disconnected">>,
     <<"connected", "absent">>, <<"disconnected", "absent">>,
     <<"pending_auth", "absent">>}

\* C3 as stated: the persisted status changes only along the claimed
\* transitions.
C3_Claim ==
    [][\A id \in Ids :
          St(mcpDb, id) # St(mcpDb', id)
              => <<St(mcpDb, id), St(mcpDb', id)>> \in ClaimedTransitions]_vars

\* C3 amended: the persisted status changes only along the claimed
\* transitions or, during startup recovery, pending_auth -> disconnected
\* and disconnected -> connected.
C3_Transitions ==
    [][\A id \in Ids :
          St(mcpDb, id) # St(mcpDb', id)
              => <<St(mcpDb, id), St(mcpDb', id)>> \in
                    ClaimedTransitions \cup
                        {<<"pending_auth", "disconnected">>,
                         <<"disconnected", "connected">>}]_vars

\* recovery has brought a row back to connected while another one is
\* disconnected
C3_Witness ==
    /\ cur.op = "reconnectSavedConnections"
    /\ \E id \in Ids : St(mcpDb, id) = "disconnected"
    /\ \E id \in Ids : id \in DOMAIN connections

\* C4 as stated: disconnect(id) on an identifier whose persisted status is
\* disconnected returns true and removes its row and credential record.
C4_Claim ==
    [][\A id \in Ids :
          (/\ last'.op = "disconnect" /\ last'.id = id
           /\ St(mcpDb, id) = "disconnected")
              => /\ last'.result = "true"
                 /\ id \notin DOMAIN mcpDb'
                 /\ id \notin DOMAIN oauthDb']_vars

\* C5: a successful completeOAuthConnection leaves the identifier in the
\* Registry, connected, with the listed tools, out of the Pending map, and
\* persisted as connected.
C5_Promoted ==
    (last.op = "completeOAuthConnection" /\ last.result = "connected")
        => /\ last.id \in DOMAIN connections
           /\ connections[last.id].status = "connected"
           /\ connections[last.id].tools = last.tools
           /\ last.id \notin DOMAIN pendingConnections
           /\ St(mcpDb, last.id) = "connected"

\* a promotion that listed at least one tool
C5_Witness ==
    /\ last.op = "completeOAuthConnection" /\ last.result = "connected"
    /\ last.tools # <<>>

\* C6: a failed completeOAuthConnection(id) deletes the Pending entry, the
\* credential record and the session-store row, leaves id out of the
\* Registry, and the next completeOAuthConnection(id) cannot get past the
\* lookup.
C6_FailureIsTerminal ==
    [][/\ (last'.op = "completeOAuthConnection" /\ last'.result = "error")
            => /\ last'.id \notin DOMAIN pendingConnections'
               /\ last'.id \notin DOMAIN oauthDb'
               /\ last'.id \notin DOMAIN mcpDb'
               /\ last'.id \notin DOMAIN connections'
       /\ (last.op = "completeOAuthConnection" /\ last.result = "error")
            => /\ ~(cur'.op = "completeOAuthConnection" /\ cur'.id = last.id)
               /\ (last'.op = "completeOAuthConnection" /\ last'.id = last.id)
                     => last'.result \in {"error", "not_found"}
               /\ ENABLED CompleteNotFound(last.id)]_vars

\* a completion attempt failed while another identifier is connected
C6_Witness ==
    /\ last.op = "completeOAuthConnection" /\ last.result = "error"
    /\ DOMAIN connections # {}

\* C7: a connect that raises leaves nothing behind for its identifier.
C7_FailedConnectLeavesNothing ==
    (last.op = "connect" /\ last.result = "error")
        => /\ last.id \notin DOMAIN connections
           /\ last.id \notin DOMAIN pendingConnections
           /\ last.id \notin DOMAIN oauthDb
           /\ last.id \notin DOMAIN mcpDb

\* a connect failed while another identifier holds a credential record
C7_Witness ==
    /\ last.op = "connect" /\ last.result = "error"
    /\ DOMAIN oauthDb # {}

\* C8: when connect returns needsAuth, the identifier is Pending, persisted
\* as pending_auth, the returned URL is the one captured in the attempt and
\* the credential record no longer holds it.
C8_NeedsAuth ==
    (last.op = "connect" /\ last.result = "needsAuth")
        => /\ last.id \in DOMAIN pendingConnections
           /\ St(mcpDb, last.id) = "pending_auth"
           /\ last.url # NULL
           /\ last.url = last.captured
           /\ getAuthorizationUrl(oauthDb, last.id) = NULL

\* needsAuth returned for an identifier that keeps a credential record
C8_Witness ==
    /\ last.op = "connect" /\ last.result = "needsAuth"
    /\ last.id \in DOMAIN oauthDb

\* C9 as stated: a provider write of one field leaves every sibling field of
\* the record at its previous value.
C9_Claim ==
    [][\A id \in ProvIds, m \in Writes :
          (last'.op = m /\ last'.id = id)
              => \A f \in Fields \ {FieldOf(m)} :
                    getSession(oauthDb', id)[f] = getSession(oauthDb, id)[f]]_vars

\* C10: invalidateCredentials with scope tokens, client or verifier clears
\* exactly that field and keeps the others; scope all deletes the record.
C10_InvalidateScoped ==
    [][\A id \in ProvIds :
          (last'.op = "invalidateCredentials" /\ last'.id = id)
              => LET old == getSession(oauthDb, id)
                     new == getSession(oauthDb', id)
                 IN /\ last'.result = "tokens"
                         => new = [old EXCEPT !.tokens = NULL]
                    /\ last'.result = "client"
                         => new = [old EXCEPT !.client_info = NULL]
                    /\ last'.result = "verifier"
                         => new = [old EXCEPT !.code_verifier = NULL]
                    /\ last'.result = "all"
                         => id \notin DOMAIN oauthDb' /\ new = NoData
                    /\ (id \in DOMAIN oauthDb /\ last'.result # "all")
                         => id \in DOMAIN oauthDb']_vars

\* invalidate('tokens') on a full record: the tokens are gone, the client
\* registration, verifier and state nonce are still there
C10_Witness ==
    /\ last.op = "invalidateCredentials" /\ last.result = "tokens"
    /\ last.id \in DOMAIN oauthDb
    /\ oauthDb[last.id].tokens = NULL
    /\ oauthDb[last.id].client_info # NULL
    /\ oauthDb[last.id].code_verifier # NULL
    /\ oauthDb[last.id].state # NULL

\* how the rows of the running (or just finished) recovery ended
Attempts == IF cur.op = "reconnectSavedConnections" THEN cur.attempts
            ELSE last.attempts

\* C11: reconnectSavedConnections attempts every saved row whatever the
\* earlier rows did and returns normally; a row whose attempt got through
\* (tokens stored, session opened, tools listed) is in the Registry with
\* persisted status connected, a row without tokens or with a failed attempt
\* has persisted status disconnected and is not in the Registry.
C11_RecoveryOutcome ==
    /\ (cur.op = "reconnectSavedConnections" \/
        last.op = "reconnectSavedConnections") =>
           \A id \in DOMAIN Attempts :
               IF Attempts[id] = "connected"
               THEN /\ id \in DOMAIN connections
                    /\ connections[id].status = "connected"
                    /\ St(mcpDb, id) = "connected"
               ELSE /\ Attempts[id] \in {"no_tokens", "failed"}
                    /\ St(mcpDb, id) = "disconnected"
                    /\ id \notin DOMAIN connections
    /\ last.op = "reconnectSavedConnections" =>
           /\ last.result = "ok"
           /\ DOMAIN last.attempts = DOMAIN mcpDb

\* recovery is over: one row failed, another row was restored
C11_Witness ==
    /\ last.op = "reconnectSavedConnections"
    /\ \E a, b \in DOMAIN last.attempts :
           last.attempts[a] = "failed" /\ last.attempts[b] = "connected"

\* the step in which the attempt for row id fails
FailedAttempt(id) ==
    /\ cur.op = "reconnectSavedConnections"
    /\ id \notin DOMAIN cur.attempts
    /\ id \in DOMAIN cur'.attempts
    /\ cur'.attempts[id] = "failed"

\* C12 as stated: after a failed reconnect attempt no tokens, verifier or
\* client info remain stored for the identifier.
C12_Claim ==
    [][\A id \in Ids :
          FailedAttempt(id) =>
              /\ getSession(oauthDb', id).tokens = NULL
              /\ getSession(oauthDb', id).code_verifier = NULL
              /\ getSession(oauthDb', id).client_info = NULL]_vars

\* C12 amended: a failed reconnect attempt marks the row disconnected and
\* leaves every credential record as it finds it; nothing is purged.
C12_CredentialsKept ==
    [][\A id \in Ids :
          FailedAttempt(id) =>
              /\ oauthDb' = oauthDb
              /\ St(mcpDb', id) = "disconnected"]_vars

\* a reconnect attempt failed and the tokens of its row are still stored
C12_Witness ==
    /\ cur.op = "reconnectSavedConnections" \/
       last.op = "reconnectSavedConnections"
    /\ \E id \in DOMAIN Attempts :
           Attempts[id] = "failed" /\ provTokens(oauthDb, id) # NULL

\* C13: disconnect(id) for an identifier in neither map returns false and
\* changes neither map, no credential record and no session-store row; a
\* disconnect(id) right after a successful disconnect(id) returns false.
C13_DisconnectUnknown ==
    [][/\ (/\ cur = Idle
           /\ last'.op = "disconnect"
           /\ last'.id \notin DOMAIN connections
           /\ last'.id \notin DOMAIN pendingConnections)
          => /\ last'.result = "false"
             /\ UNCHANGED <<connections, pendingConnections, oauthDb, mcpDb>>
       /\ (/\ last.op = "disconnect" /\ last.result = "true"
           /\ last'.op = "disconnect" /\ last'.id = last.id)
          => last'.result = "false"]_vars

\* disconnect has answered false for an identifier that was handed out
\* earlier, while another connection and a credential record exist
C13_Witness ==
    /\ last.op = "disconnect" /\ last.result = "false"
    /\ last.id \in used
    /\ DOMAIN connections # {}
    /\ DOMAIN oauthDb # {}

\* C14: disconnect(id) for an identifier in the Registry or the Pending map
\* returns true and leaves the identifier in neither map, without credential
\* record and without session-store row, also when client.close() raises.
C14_DisconnectRemoves ==
    [][(/\ cur = Idle
        /\ last'.op = "disconnect"
        /\ (last'.id \in DOMAIN connections \/
            last'.id \in DOMAIN pendingConnections))
       => /\ last'.result = "true"
          /\ last'.id \notin DOMAIN connections'
          /\ last'.id \notin DOMAIN pendingConnections'
          /\ last'.id \notin DOMAIN oauthDb'
          /\ last'.id \notin DOMAIN mcpDb']_vars

\* a disconnect whose client.close() raised has returned true
C14_Witness ==
    /\ last.op = "disconnect" /\ last.result = "true"
    /\ last.closeThrew
    /\ last.id \notin DOMAIN connections

\* C15: completeOAuthConnection(id, code) for an identifier without Pending
\* entry fails with the not-found error and changes neither map, no
\* credential record and no session-store row.
C15_CompleteUnknown ==
    [][\A id \in Ids :
          (/\ cur = Idle
           /\ id \notin DOMAIN pendingConnections
           /\ \/ last'.op = "completeOAuthConnection" /\ last'.id = id
              \/ cur'.op = "completeOAuthConnection" /\ cur'.id = id)
          => /\ last'.result = "not_found"
             /\ cur' = Idle
             /\ UNCHANGED <<connections, pendingConnections, oauthDb,
                            mcpDb>>]_vars

\* the not-found error was raised for an identifier that is connected and
\* still is, with its credential record
C15_Witness ==
    /\ last.op = "completeOAuthConnection" /\ last.result = "not_found"
    /\ last.id \in DOMAIN connections
    /\ last.id \in DOMAIN oauthDb
    /\ St(mcpDb, last.id) = "connected"

\* the messages chatWithToolLoop has pushed onto conversationMessages
Appended ==
    LET frame == IF \E i \in DOMAIN openrouter.input :
                        openrouter.input[i].role = "system"
                 THEN Len(openrouter.input) ELSE Len(openrouter.input) + 1
    IN  SubSeq(openrouter.messages, frame + 1, Len(openrouter.messages))

\* C16: when the first reply of the model carries no tool calls,
\* chatWithToolLoop has made exactly one LLM request in one iteration, has
\* executed no tool and has returned that reply as finalMessage and as the
\* last element of the returned transcript.
C16_NoToolCalls ==
    (/\ openrouter.entry = "chatWithToolLoop"
     /\ Appended # <<>>
     /\ Appended[1].tool_calls = <<>>)
    => /\ openrouter.pc = "done"
       /\ openrouter.result.kind = "ok"
       /\ openrouter.requests = 1
       /\ openrouter.iteration = 1
       /\ openrouter.executed = 0
       /\ openrouter.dispatched = <<>>
       /\ Len(Appended) = 1
       /\ openrouter.result.finalMessage = Appended[1]
       /\ openrouter.result.hasMessages
       /\ openrouter.result.messages[Len(openrouter.result.messages)]
              = Appended[1]

\* the loop returned after one request although more iterations were
\* allowed and a tool was on offer
C16_Witness ==
    /\ openrouter.entry = "chatWithToolLoop"
    /\ openrouter.pc = "done"
    /\ openrouter.result.kind = "ok"
    /\ openrouter.requests = 1
    /\ openrouter.maxIterations = MaxIter
    /\ getAllTools # {}

\* every reply pushed so far carries at least one tool call
AllRepliesCall ==
    \A i \in DOMAIN Appended :
        Appended[i].role = "assistant" => Appended[i].tool_calls # <<>>

\* C17: with maxIterations = N >= 1 and a model that emits a tool call in
\* every reply, chatWithToolLoop makes N LLM requests, never more, and then
\* fails with the error that names N; it never returns successfully.
C17_BoundReached ==
    (/\ openrouter.entry = "chatWithToolLoop"
     /\ openrouter.maxIterations >= 1
     /\ AllRepliesCall
     /\ openrouter.result.error # "chat")
    => /\ openrouter.requests <= openrouter.maxIterations
       /\ openrouter.result.kind # "ok"
       /\ openrouter.pc = "done" =>
              /\ openrouter.result.kind = "error"
              /\ openrouter.result.error = "max_iterations"
              /\ openrouter.result.bound = openrouter.maxIterations
              /\ openrouter.requests = openrouter.maxIterations
              /\ openrouter.iteration = openrouter.maxIterations

\* the loop failed at the largest bound after as many requests
C17_Witness ==
    /\ openrouter.pc = "done"
    /\ openrouter.result.error = "max_iterations"
    /\ openrouter.result.bound = MaxIter
    /\ openrouter.requests = MaxIter
    /\ openrouter.executed >= MaxIter

\* C18 as stated: when the loop fails at maxIterations = N the transcript
\* comes back with the failure, holding N assistant messages and ending
\* with the N-th of them (its tool results are not appended).
C18_Claim ==
    (/\ openrouter.entry = "chatWithToolLoop"
     /\ openrouter.pc = "done"
     /\ openrouter.result.error = "max_iterations"
     /\ openrouter.maxIterations >= 1)
    => /\ openrouter.result.hasMessages
       /\ openrouter.result.messages = openrouter.messages
       /\ Cardinality({i \in DOMAIN Appended :
                          Appended[i].role = "assistant"})
              = openrouter.maxIterations
       /\ Appended[Len(Appended)].role = "assistant"

\* tool call c of a reply cannot be carried out
Fails(c) ==
    \/ c.arguments = "invalid"
    \/ LookupConnection(connectionIdOf(c.name)) = {}
    \/ ~(LookupConnection(connectionIdOf(c.name)) \subseteq openrouter.up)

\* C19: once chat is through a reply with k >= 1 tool calls there are
\* exactly k tool results, one per call in the order of the calls, every
\* call was executed, a call that failed (unknown connection, provider
\* error, unparsable arguments) has an error payload as its output, and a
\* direct chat() call has returned normally with these results.
C19_FailuresContained ==
    LET calls == openrouter.message.tool_calls
    IN  (calls # <<>> /\ openrouter.pc \in {"while", "done"})
        => /\ Len(openrouter.toolResults) = Len(calls)
           /\ \A i \in DOMAIN calls :
                  /\ openrouter.toolResults[i].tool_call_id = calls[i].id
                  /\ openrouter.toolResults[i].name = calls[i].name
                  /\ Fails(calls[i]) =>
                         openrouter.toolResults[i].output.kind = "error"
           /\ openrouter.entry = "chat" =>
                  /\ openrouter.executed = Len(calls)
                  /\ openrouter.result.kind = "ok"
                  /\ openrouter.result.hasToolResults
                  /\ openrouter.result.toolResults = openrouter.toolResults

\* chat() returned two results: the first call failed, the second one was
\* answered by its provider
C19_Witness ==
    /\ openrouter.entry = "chat"
    /\ openrouter.pc = "done"
    /\ Len(openrouter.result.toolResults) = 2
    /\ openrouter.result.toolResults[1].output.kind = "error"
    /\ openrouter.result.toolResults[2].output.kind = "result"

\* C20: the tool calls of one reply are executed one at a time in the order
\* of the reply: at most one provider call is in flight, it belongs to the
\* call right after the ones that have a result, provider calls are sent in
\* the order of the calls, and result i belongs to call i.
C20_Sequential ==
    /\ Cardinality(openrouter.running) <= 1
    /\ openrouter.running \subseteq {Len(openrouter.toolResults) + 1}
    /\ \A i \in DOMAIN openrouter.toolResults :
           openrouter.toolResults[i].tool_call_id =
               openrouter.message.tool_calls[i].id
    /\ \A i, j \in DOMAIN openrouter.dispatched :
           (i < j /\ openrouter.dispatched[i].request =
                         openrouter.dispatched[j].request)
               => openrouter.dispatched[i].index
                      < openrouter.dispatched[j].index

\* the provider call of the second tool call is in flight after the first
\* provider call has completed
C20_Witness ==
    /\ openrouter.pc = "callTool"
    /\ openrouter.running = {2}
    /\ Len(openrouter.toolResults) = 1
    /\ Len(openrouter.dispatched) = 2

\* C21: in the transcript chatWithToolLoop builds, every assistant message
\* the loop has pushed with k >= 1 tool calls is directly followed by k tool
\* messages, the i-th carrying the id of the i-th call, and by nothing else
\* before the next assistant message; this holds whenever a request to the
\* LLM is made.
C21_Paired ==
    openrouter.entry = "chatWithToolLoop" =>
        \A p \in DOMAIN Appended :
            LET calls == Appended[p].tool_calls
                k == Len(calls)
            IN  Appended[p].role = "assistant" =>
                    /\ p + k <= Len(Appended)
                    /\ \A i \in 1..k :
                           /\ Appended[p + i].role = "tool"
                           /\ Appended[p + i].tool_call_id = calls[i].id
                    /\ p + k < Len(Appended) =>
                           Appended[p + k + 1].role = "assistant"
                    /\ p = 1 \/ Appended[p - 1].role = "tool"

\* a reply with two tool calls and its two tool messages are in the
\* transcript and the next request has been answered
C21_Witness ==
    /\ openrouter.entry = "chatWithToolLoop"
    /\ Len(Appended) >= 4
    /\ Len(Appended[1].tool_calls) = 2
    /\ Appended[3].role = "tool"
    /\ Appended[4].role = "assistant"

\* the input of the running chatWithToolLoop holds a system message
HasSystemPrompt ==
    \E i \in DOMAIN openrouter.input : openrouter.input[i].role = "system"

\* C23: the transcript a successful chatWithToolLoop returns starts with
\* the system prompt exactly when the input holds no system message, goes on
\* with the input messages unchanged and in their order, and ends with
\* messages the loop pushed (the replies of the model, one per request, and
\* tool messages), the last one being the final message; the list the
\* caller passed is the same from the call to the return.
C23_Transcript ==
    /\ [](LET in == openrouter.input
              out == openrouter.result.messages
              lead == IF HasSystemPrompt THEN 0 ELSE 1
              pushed == SubSeq(out, lead + Len(in) + 1, Len(out))
          IN  (/\ openrouter.entry = "chatWithToolLoop"
               /\ openrouter.pc = "done"
               /\ openrouter.result.kind = "ok")
              => /\ in \in InputMessages
                 /\ Len(out) > lead + Len(in)
                 /\ (out[1] = systemPrompt) <=> ~HasSystemPrompt
                 /\ SubSeq(out, lead + 1, lead + Len(in)) = in
                 /\ \A i \in DOMAIN pushed :
                        pushed[i].role \in {"assistant", "tool"}
                 /\ Cardinality({i \in DOMAIN pushed :
                                    pushed[i].role = "assistant"})
                        = openrouter.requests
                 /\ pushed[Len(pushed)] = openrouter.result.finalMessage)
    /\ [][openrouter.pc # "idle" => openrouter'.input = openrouter.input]_vars

\* a transcript came back for an input with a system message after the
\* loop had pushed a reply with tool calls, its tool messages and the final
\* reply
C23_Witness ==
    /\ openrouter.entry = "chatWithToolLoop"
    /\ openrouter.pc = "done"
    /\ openrouter.result.kind = "ok"
    /\ HasSystemPrompt
    /\ openrouter.result.messages[1] # systemPrompt
    /\ Len(openrouter.result.messages) >= Len(openrouter.input) + 3

\* C29: the recovery step that handles a saved row whose credential record
\* holds no tokens opens no session and starts no authorization flow (the
\* handler stays between rows, nothing is written to the credential store,
\* no state nonce or URL included); it leaves the Registry and the Pending
\* map as they are with the identifier in neither, and changes nothing but
\* the persisted status of that row, which becomes disconnected.
C29_NoTokensSkipped ==
    [][\A id \in Ids :
          (/\ cur.op = "reconnectSavedConnections" /\ cur.pc = "next"
           /\ cur'.op = "reconnectSavedConnections"
           /\ id \in cur.todo
           /\ provTokens(oauthDb, id) = NULL
           /\ \/ id \notin cur'.todo
              \/ cur'.pc # "next" /\ cur'.id = id)
          => /\ cur'.pc = "next"
             /\ cur'.attempts = MapSet(cur.attempts, id, "no_tokens")
             /\ oauthDb' = oauthDb
             /\ connections' = connections
             /\ pendingConnections' = pendingConnections
             /\ id \notin DOMAIN connections'
             /\ id \notin DOMAIN pendingConnections'
             /\ St(mcpDb', id) = "disconnected"
             /\ mcpDb' = updateStatus(mcpDb, id, "disconnected")
             /\ used' = used]_vars

\* recovery has skipped a row whose credential record exists without
\* tokens; the row is disconnected
C29_Witness ==
    \E id \in Ids :
        /\ cur.op = "reconnectSavedConnections"
        /\ id \in DOMAIN cur.attempts
        /\ cur.attempts[id] = "no_tokens"
        /\ id \in DOMAIN oauthDb
        /\ St(mcpDb, id) = "disconnected"

\* C28 as stated: once a retrieval has returned the captured URL the URL is
\* gone, so that a later retrieval for the identifier finds none.
C28_Claim ==
    (last.op = "getAuthorizationUrl" /\ last.url # NULL)
        => getAuthorizationUrl(oauthDb, last.id) = NULL

\* C28: getAuthorizationUrl returns the URL that is stored and leaves it
\* stored, so that the next retrieval returns the same URL; the URL is gone
\* after clearAuthorizationUrl, and redirectToAuthorization stores the one
\* it is given.
C28_RetrievalKeepsUrl ==
    /\ [](/\ last.op = "getAuthorizationUrl" =>
                  getAuthorizationUrl(oauthDb, last.id) = last.url
          /\ last.op = "clearAuthorizationUrl" =>
                  getAuthorizationUrl(oauthDb, last.id) = NULL
          /\ last.op = "redirectToAuthorization" =>
                  getAuthorizationUrl(oauthDb, last.id) = last.url)
    /\ [][last'.op = "getAuthorizationUrl" =>
              /\ last'.url = getAuthorizationUrl(oauthDb, last'.id)
              /\ oauthDb' = oauthDb]_vars

\* a retrieval has returned a captured URL, which is still stored
C28_Witness ==
    /\ last.op = "getAuthorizationUrl"
    /\ last.url # NULL
    /\ getAuthorizationUrl(oauthDb, last.id) = last.url

HasSeparator(str) ==
    \E i \in 1..(Len(str) - 1) : str[i] = US /\ str[i + 1] = US

\* C24 as stated: for a connection identifier without "__" and any tool
\* name, splitting the composed name gives back the identifier and the tool
\* name.
C24_Claim ==
    (pure.pc = "split" /\ ~HasSeparator(pure.connectionId))
    => /\ pure.outConnectionId = pure.connectionId
       /\ pure.outToolName = pure.toolName

\* C24: for a connection identifier that holds no "__" and does not end
\* with '_' (every uuidv4 identifier) and any tool name, tool names with
\* "__" included, splitting the composed name gives back the identifier and
\* the tool name.
C24_RoundTrip ==
    (/\ pure.pc = "split"
     /\ ~HasSeparator(pure.connectionId)
     /\ pure.connectionId[Len(pure.connectionId)] # US)
    => /\ pure.outConnectionId = pure.connectionId
       /\ pure.outToolName = pure.toolName

\* a tool name that holds "__" came back whole
C24_Witness ==
    /\ pure.pc = "split"
    /\ HasSeparator(pure.toolName)
    /\ pure.connectionId = <<Letter>>
    /\ pure.outConnectionId = pure.connectionId
    /\ pure.outToolName = pure.toolName

\* C25: sanitizeSchema applied to its own output returns that output, for
\* every schema of Schemas: root types missing, empty or given, properties
\* missing, primitive, array or object, required lists with duplicates,
\* composition keywords at the root and nested.
C25_Idempotent ==
    pure.pc = "twice" => pure.twice = pure.once

\* the second pass returned the output of a first pass that had dropped a
\* duplicate of required and added the root type and properties
C25_Witness ==
    /\ pure.pc = "twice"
    /\ pure.twice = pure.once
    /\ pure.once # pure.schema
    /\ "type" \notin DOMAIN pure.schema.map
    /\ "properties" \in DOMAIN pure.once.map
    /\ "required" \in DOMAIN pure.schema.map
    /\ pure.schema.map["required"] # pure.once.map["required"]

\* every key at every schema position of the value is in the allow-list
\* and not reserved: the value itself, the values under properties, items,
\* the elements of anyOf, oneOf and allOf, additionalProperties, not and
\* propertyNames
RECURSIVE KeysAllowed(_)
KeysAllowed(v) ==
    IF v.kind = "prim" THEN TRUE
    ELSE IF v.kind = "arr" THEN \A i \in DOMAIN v.elems : KeysAllowed(v.elems[i])
    ELSE /\ \A key \in DOMAIN v.map :
                key \in allowedSchemaProps /\ ~StartsWithDollar(key)
         /\ \A key \in DOMAIN v.map \cap
                    {"items", "anyOf", "oneOf", "allOf",
                     "additionalProperties", "not", "propertyNames"} :
                KeysAllowed(v.map[key])
         /\ ("properties" \in DOMAIN v.map /\ v.map["properties"].kind = "obj")
                => \A fieldName \in DOMAIN v.map["properties"].map :
                       KeysAllowed(v.map["properties"].map[fieldName])

\* C30 as stated: in the output of the sanitizer every key at every schema
\* position, the value of not included, is in the allow-list and does not
\* start with '$'.
C30_Claim ==
    pure.pc \in {"once", "twice"} => KeysAllowed(pure.once)

\* what a map holds for an identifier
Entry(m, id) == IF id \in DOMAIN m THEN <<m[id]>> ELSE <<>>

\* C26 as stated: while completeOAuthConnection(id) is suspended at an
\* await, no step of another handler changes the Registry entry or the
\* Pending entry of id, and neither a completeOAuthConnection(id) nor a
\* disconnect(id) starts.
C26_Claim ==
    [][\A id \in Ids :
          (/\ bg.op = "completeOAuthConnection" /\ bg.id = id
           /\ bg' = bg)
          => /\ Entry(connections', id) = Entry(connections, id)
             /\ Entry(pendingConnections', id) = Entry(pendingConnections, id)
             /\ ~(/\ cur = Idle
                  /\ cur'.op = "completeOAuthConnection" /\ cur'.id = id)
             /\ ~(/\ last' # last
                  /\ last'.op = "disconnect" /\ last'.id = id)]_vars

\* C27: under every interleaving of connect, completeOAuthConnection,
\* disconnect and callTool, a step changes the Registry entry, the Pending
\* entry, the credential record and the session-store row of no identifier
\* but the one its own operation is on: what is stored for an identifier B
\* is written by the operations on B alone.
C27_NoInterference ==
    [][\A b \in Ids :
          (/\ ~(cur.op # "idle" /\ cur.id = b)
           /\ ~(cur'.op # "idle" /\ cur'.id = b)
           /\ ~(last' # last /\ last'.id = b))
          => /\ Entry(connections', b) = Entry(connections, b)
             /\ Entry(pendingConnections', b) = Entry(pendingConnections, b)
             /\ Entry(oauthDb', b) = Entry(oauthDb, b)
             /\ Entry(mcpDb', b) = Entry(mcpDb, b)]_vars

\* disconnect(A) has returned true while completeOAuthConnection(B) is
\* suspended with its Pending entry, its credential record and its row
C27_Witness ==
    /\ bg.op = "completeOAuthConnection"
    /\ bg.id \in DOMAIN pendingConnections
    /\ bg.id \in DOMAIN oauthDb
    /\ St(mcpDb, bg.id) = "pending_auth"
    /\ last.op = "disconnect" /\ last.result = "true"
    /\ last.id # bg.id

\* C31 as stated: when recovery comes to a row that is persisted as
\* connected and has no credential record (a connection made without an
\* authorization flow), it attempts to open a session for it.
C31_Claim ==
    [][\A id \in Ids :
          (/\ cur.op = "reconnectSavedConnections" /\ cur.pc = "next"
           /\ cur'.op = "reconnectSavedConnections"
           /\ id \in cur.todo
           /\ St(mcpDb, id) = "connected"
           /\ id \notin DOMAIN oauthDb
           /\ \/ id \notin cur'.todo
              \/ cur'.pc # "next" /\ cur'.id = id)
          => /\ cur'.pc = "open" /\ cur'.id = id
             /\ St(mcpDb', id) = "connected"]_vars

\* C37 as stated: when the process starts, the tokens stored for an
\* identifier that has a row in mcp_connections are still stored when the
\* recovery loop begins.
C37_Claim ==
    [][(/\ cur = Idle
        /\ \/ cur'.op = "reconnectSavedConnections"
           \/ last' # last /\ last'.op = "reconnectSavedConnections")
       => \A id \in DOMAIN mcpDb :
              provTokens(oauthDb, id) # NULL
                  => provTokens(oauthDb', id) = provTokens(oauthDb, id)]_vars

\* C32 as stated: under every interleaving of connect,
\* completeOAuthConnection and disconnect, each identifier in the Registry
\* has a row with status connected and each identifier in the Pending map
\* has a row with status pending_auth.
C32_Claim ==
    /\ \A id \in DOMAIN connections : St(mcpDb, id) = "connected"
    /\ \A id \in DOMAIN pendingConnections : St(mcpDb, id) = "pending_auth"

\* C33 as stated: after disconnect(id) has returned true no step puts id
\* into the Registry or the Pending map, whatever was in progress for id.
C33_Claim ==
    [][\A id \in Ids :
          (last.op = "disconnect" /\ last.result = "true" /\ last.id = id)
          => /\ id \notin DOMAIN connections'
             /\ id \notin DOMAIN pendingConnections']_vars

\* C34 as stated: a provider call is made only for a function name that is
\* in the catalog, i.e. names a tool in the cached tool list of the
\* Registry connection it resolves to.
C34_Claim ==
    \A i \in DOMAIN openrouter.dispatched :
        Compose(openrouter.dispatched[i].connectionId,
                openrouter.dispatched[i].toolName) \in Catalog

\* a provider call was made for tool call i of the reply being processed
Dispatched(i) ==
    \E k \in DOMAIN openrouter.dispatched :
        /\ openrouter.dispatched[k].request = openrouter.requests
        /\ openrouter.dispatched[k].index = i

C38_Terminates ==
    /\ [](openrouter.entry = "chatWithToolLoop" =>
              /\ openrouter.maxIterations >= 0 =>
                     openrouter.requests <= openrouter.maxIterations
              /\ openrouter.maxIterations <= 0 =>
                     /\ openrouter.requests = 0
                     /\ openrouter.executed = 0
                     /\ openrouter.dispatched = <<>>
                     /\ openrouter.pc = "done" =>
                            /\ openrouter.result.kind = "error"
                            /\ openrouter.result.error = "max_iterations")
    /\ (openrouter.entry = "chatWithToolLoop") ~> (openrouter.pc = "done")

\* the loop has returned at its last allowed iteration, after tool calls
\* in every earlier one
C38_Witness ==
    /\ openrouter.entry = "chatWithToolLoop"
    /\ openrouter.pc = "done"
    /\ openrouter.result.kind = "ok"
    /\ openrouter.maxIterations = MaxIter
    /\ openrouter.requests = MaxIter
    /\ openrouter.executed >= MaxIter - 1

\* C36: no operation ends with a protocol session that was opened and is
\* neither held by a Registry entry nor closed.
C36_Claim == last.orphans = {}

====
